---- MODULE Spec2Model ----
(***************************************************************************)
(* Model of rustipedia's wikitext transformation engine (src/parser.rs):   *)
(* the template/table stripping scan, the markup cleaner pipeline, the     *)
(* link rewriter and the page classifier; and of the link pruning of       *)
(* src/bin/download.rs (prune_articles).                                   *)
(*                                                                         *)
(* A text is a sequence of one-character strings.  One call of the cleaner *)
(* or of parse_article is one behaviour: Init draws the arguments, the     *)
(* actions are the steps of the handler in program order.  One run of      *)
(* prune_articles is one behaviour too: Init draws the articles file.      *)
(***************************************************************************)
EXTENDS Integers, Sequences, FiniteSets, TLC

VARIABLES
    pc,            \* position in the handler
    entry,         \* the function called: "clean" or "parse"
    title,         \* parse_article's argument `title`
    min_length,    \* the parser's field `min_length`
    text,          \* the argument `text`
    valid_titles,  \* the argument `valid_titles`: None or a set of titles
    result,        \* the local `result`
    pos,           \* index of the next character `chars.next()` returns
    stack,         \* the local `stack` of expected closers
    clean_buffer,  \* the local `clean_buffer`
    depth,         \* the local `depth` of the link scan
    content,       \* the local `content` of the link scan
    is_closed,     \* the local `is_closed` of the link scan
    caps,          \* the captures handed to the link closure, None outside it
    replacement,   \* what the link closure returned for `caps`
    categories,    \* parse_article's local `categories`
    outcome,       \* what the call returned
    prune_pc,      \* position in prune_articles
    articles_file, \* the file articles.jsonl: None, or its lines
    temp_file,     \* the file articles_pruned.jsonl: None, or its lines
    title_index,   \* the local `title_index`
    reader,        \* the number of the line `reader.lines()` yields next
    article,       \* the local `article` of the second pass, None outside it
    last_match,    \* where replace_all goes on in `article.content`
    new_content,   \* what replace_all has built of `new_content`
    decisions,     \* history: the links the closure has decided, in order
    running,       \* the worker whose locals the parser's variables hold
    parked,        \* the locals of the workers that are not running
    alone,         \* what each worker's call returned when it ran alone
    extract_pc,    \* position in WikiDownloader::extract
    dump,          \* the pages of the dump, in order
    page_no,       \* the number of the page the XML reader yields next
    stats,         \* the local `stats`
    writer,        \* the records written to articles.jsonl
    max_articles,  \* WikiDownloader's `config.max_articles`
    status,        \* UpdateManager's field `status`, the value behind the lock
    lock,          \* who holds the RwLock around `status`
    calls,         \* the calls on the manager: each task's method and position
    status_file,   \* the file save_status writes
    config         \* UpdateManager's field `config`

vars == <<pc, entry, title, min_length, text, valid_titles, result, pos, stack,
          clean_buffer, depth, content, is_closed, caps, replacement,
          categories, outcome, prune_pc, articles_file, temp_file, title_index,
          reader, article, last_match, new_content, decisions,
          running, parked, alone, extract_pc, dump, page_no, stats, writer,
          max_articles, status, lock, calls, status_file, config>>

\* The locals of the two hand-written scans.
scan_vars == <<stack, depth, content, is_closed>>
\* The arguments of the call.
arg_vars == <<entry, title, min_length, text, valid_titles>>
\* The state of the link closure.
link_vars == <<caps, replacement>>
\* The state of prune_articles.
prune_vars == <<prune_pc, articles_file, temp_file, title_index, reader, article,
                last_match, new_content, decisions>>
\* The workers that call the parser side by side.
worker_vars == <<running, parked, alone>>
\* The state of WikiDownloader::extract.
extract_vars == <<extract_pc, dump, page_no, stats, writer, max_articles>>
\* The state of the update manager.
update_vars == <<status, lock, calls, status_file, config>>
\* What a step of the parser leaves alone outside the parser.
env_vars == <<prune_vars, worker_vars, extract_vars, update_vars>>
\* The state of the parser.
parser_vars == <<pc, entry, title, min_length, text, valid_titles, result, pos, stack,
                 clean_buffer, depth, content, is_closed, caps, replacement,
                 categories, outcome>>

\* Option<T>: None is the empty sequence, Some(x) the sequence of x alone.
None == <<>>
Some(x) == <<x>>
Unwrap(o) == o[1]

\* What `peek()` yields at the end of the input.
NoChar == "None"

-----------------------------------------------------------------------------
(* Texts.                                                                  *)

\* All sequences over S of length at most n.
SeqsUpTo(S, n) == UNION {[1..k -> S] : k \in 0..n}

\* Concatenation of a sequence of texts.
RECURSIVE Flatten(_)
Flatten(ss) == IF ss = <<>> THEN <<>> ELSE Head(ss) \o Flatten(Tail(ss))

\* The text from index i to the end.
From(s, i) == SubSeq(s, i, Len(s))

\* Literal `lit` stands in s at index i.
LitAt(s, i, lit) ==
    /\ i >= 1
    /\ i + Len(lit) - 1 <= Len(s)
    /\ SubSeq(s, i, i + Len(lit) - 1) = lit

\* `chars.peek()` when the character at i was just read: the one after it.
Peek(s, i) == IF i + 1 <= Len(s) THEN s[i + 1] ELSE NoChar

\* A read that consumes nothing, to compare Consume with.
ConsumeNothing(i, n) == i

\* `chars.next()` called n times with the next character at index i: the index
\* of the character the iterator yields after that.
Consume(i, n) == i + n

-----------------------------------------------------------------------------
(* Character classes and conversions.                                      *)

\* `\s` of the regex crate and char::is_whitespace, on the model's characters.
WhiteSpace == {" ", "\t", "\n", "\r"}

UpperCase == <<"A", "B", "C", "D", "E", "F", "G", "H", "I", "J", "K", "L", "M",
               "N", "O", "P", "Q", "R", "S", "T", "U", "V", "W", "X", "Y", "Z">>
LowerCase == <<"a", "b", "c", "d", "e", "f", "g", "h", "i", "j", "k", "l", "m",
               "n", "o", "p", "q", "r", "s", "t", "u", "v", "w", "x", "y", "z">>
Digits == {"0", "1", "2", "3", "4", "5", "6", "7", "8", "9"}

Range(f) == {f[k] : k \in DOMAIN f}

\* char::to_lowercase on one character.
LowerChar(c) ==
    IF \E k \in DOMAIN UpperCase : UpperCase[k] = c
    THEN LowerCase[CHOOSE k \in DOMAIN UpperCase : UpperCase[k] = c]
    ELSE c

\* str::to_lowercase.
to_lowercase(s) == [k \in DOMAIN s |-> LowerChar(s[k])]

\* The index of the first character at or after i that is not in class S
\* (Len(s) + 1 when the run reaches the end): the end of a greedy `[S]*`.
RECURSIVE SkipIn(_, _, _)
SkipIn(s, i, S) ==
    IF i <= Len(s) /\ s[i] \in S THEN SkipIn(s, i + 1, S) ELSE i

\* The same for a negated class `[^S]*`.
RECURSIVE SkipNotIn(_, _, _)
SkipNotIn(s, i, S) ==
    IF i <= Len(s) /\ s[i] \notin S THEN SkipNotIn(s, i + 1, S) ELSE i

\* The index of the first occurrence of `lit` at or after i, 0 when there is none.
RECURSIVE FirstLit(_, _, _)
FirstLit(s, i, lit) ==
    IF i + Len(lit) - 1 > Len(s) THEN 0
    ELSE IF LitAt(s, i, lit) THEN i
    ELSE FirstLit(s, i + 1, lit)

\* A newline stands somewhere in s[a..b]: `.` does not match it.
HasNewline(s, a, b) == \E k \in a..b : s[k] = "\n"

\* str::trim.
RECURSIVE TrimEnd(_)
TrimEnd(s) ==
    IF s # <<>> /\ s[Len(s)] \in WhiteSpace THEN TrimEnd(SubSeq(s, 1, Len(s) - 1)) ELSE s

trim_start(s) == From(s, SkipIn(s, 1, WhiteSpace))

trim(s) == TrimEnd(trim_start(s))

\* str::starts_with.
starts_with(s, prefix) == LitAt(s, 1, prefix)

\* prune_articles is not run: a call of the parser touches no file.
PruneNotRun ==
    /\ prune_pc = "none"
    /\ articles_file = None
    /\ temp_file = None
    /\ title_index = {}
    /\ reader = 1
    /\ article = None
    /\ last_match = 1
    /\ new_content = <<>>
    /\ decisions = <<>>

\* The call is the only one: no other worker runs the parser.
WorkersNotRun ==
    /\ running = "w1"
    /\ parked = <<>>
    /\ alone = <<>>

\* extract is not run.
ExtractNotRun ==
    /\ extract_pc = "none"
    /\ dump = <<>>
    /\ page_no = 1
    /\ stats = [articles_extracted |-> 0, articles_skipped |-> 0, redirects |-> 0]
    /\ writer = <<>>
    /\ max_articles = 0

\* No update manager is in use.
UpdateNotRun ==
    /\ status = None
    /\ lock = None
    /\ calls = <<>>
    /\ status_file = None
    /\ config = None

-----------------------------------------------------------------------------
(* Regex::replace_all: the leftmost match at or after the end of the       *)
(* previous one is replaced, the text between matches is copied.           *)
(* MatchEnd(s, i) is the index just past the match that starts at i, or 0. *)
(* No pattern of this file matches the empty string.                       *)

ReplaceAll(s, MatchEnd(_, _), Repl(_, _, _)) ==
    LET starts == {k \in 1..Len(s) : MatchEnd(s, k) > 0}
        RECURSIVE go(_)
        go(i) ==
            LET ahead == {k \in starts : k >= i}
            IN  IF ahead = {} THEN SubSeq(s, i, Len(s))
                ELSE LET m == CHOOSE k \in ahead : \A j \in ahead : k <= j
                     IN  SubSeq(s, i, m - 1) \o Repl(s, m, MatchEnd(s, m)) \o go(MatchEnd(s, m))
    IN  go(1)

\* The start of the leftmost match at or after i, 0 when there is none.
NextMatch(s, from, MatchEnd(_, _)) ==
    IF \E k \in from..Len(s) : MatchEnd(s, k) > 0
    THEN CHOOSE k \in from..Len(s) :
             /\ MatchEnd(s, k) > 0
             /\ \A j \in from..(k - 1) : MatchEnd(s, j) = 0
    ELSE 0

Delete(s, i, e) == <<>>

\* str::replace(lit, ""): the non-overlapping occurrences from the left.
LitMatchEnd(lit, s, i) == IF LitAt(s, i, lit) THEN i + Len(lit) ELSE 0

-----------------------------------------------------------------------------
(* The compiled patterns, parser.rs 7-18: for each, the end of the match   *)
(* that starts at i (0: no match there), as the regex crate's              *)
(* leftmost-first search finds it.                                         *)

\* REF_RE  <ref[^>]*>.*?</ref>
RefMatchEnd(s, i) ==
    IF ~LitAt(s, i, <<"<", "r", "e", "f">>) THEN 0
    ELSE LET g == SkipNotIn(s, i + 4, {">"})
         IN  IF g > Len(s) THEN 0
             ELSE LET j == FirstLit(s, g + 1, <<"<", "/", "r", "e", "f", ">">>)
                  IN  IF j = 0 \/ HasNewline(s, g + 1, j - 1) THEN 0 ELSE j + 6

\* REF_SELF_RE  <ref[^/]*/\s*>
RefSelfMatchEnd(s, i) ==
    IF ~LitAt(s, i, <<"<", "r", "e", "f">>) THEN 0
    ELSE LET sl == SkipNotIn(s, i + 4, {"/"})
         IN  IF sl > Len(s) THEN 0
             ELSE LET k == SkipIn(s, sl + 1, WhiteSpace)
                  IN  IF k <= Len(s) /\ s[k] = ">" THEN k + 1 ELSE 0

\* COMMENT_RE  <!--.*?-->
CommentMatchEnd(s, i) ==
    IF ~LitAt(s, i, <<"<", "!", "-", "-">>) THEN 0
    ELSE LET j == FirstLit(s, i + 4, <<"-", "-", ">">>)
         IN  IF j = 0 \/ HasNewline(s, i + 4, j - 1) THEN 0 ELSE j + 3

\* EXT_LINK_RE  \[https?://[^\s\]]*\s*([^\]]*)\]   where the text group starts
ExtLinkTextStart(s, i) ==
    IF ~LitAt(s, i, <<"[", "h", "t", "t", "p">>) THEN 0
    ELSE LET k == IF i + 5 <= Len(s) /\ s[i + 5] = "s" THEN i + 6 ELSE i + 5
         IN  IF ~LitAt(s, k, <<":", "/", "/">>) THEN 0
             ELSE SkipIn(s, SkipNotIn(s, k + 3, WhiteSpace \cup {"]"}), WhiteSpace)

ExtLinkMatchEnd(s, i) ==
    LET a == ExtLinkTextStart(s, i)
    IN  IF a = 0 THEN 0
        ELSE LET b == SkipNotIn(s, a, {"]"})
             IN  IF b <= Len(s) THEN b + 1 ELSE 0

\* The replacement "$1": the text group.
ExtLinkRepl(s, i, e) == SubSeq(s, ExtLinkTextStart(s, i), e - 2)

\* HEADER_RE  ={2,}[^=]+={2,}
HeaderMatchEnd(s, i) ==
    IF ~LitAt(s, i, <<"=", "=">>) THEN 0
    ELSE LET a == SkipIn(s, i, {"="})
             b == SkipNotIn(s, a, {"="})
         IN  IF a <= Len(s) /\ LitAt(s, b, <<"=", "=">>) THEN SkipIn(s, b, {"="}) ELSE 0

HeaderRepl(s, i, e) == <<"\n">>

\* BULLET_RE  (?m)^\s*[\*#:]+\s*
BulletMarks == {"*", "#", ":"}

BulletMatchEnd(s, i) ==
    IF ~(i = 1 \/ (i >= 2 /\ i - 1 <= Len(s) /\ s[i - 1] = "\n")) THEN 0
    ELSE LET a == SkipIn(s, i, WhiteSpace)
         IN  IF a <= Len(s) /\ s[a] \in BulletMarks
             THEN SkipIn(s, SkipIn(s, a, BulletMarks), WhiteSpace)
             ELSE 0

\* The pattern  </[^>]+>  of the closing tags alone, to compare HTML_RE with.
HtmlMatchEndClosingOnly(s, i) ==
    IF ~LitAt(s, i, <<"<", "/">>) THEN 0
    ELSE LET g == SkipNotIn(s, i + 2, {">"})
         IN  IF g > i + 2 /\ g <= Len(s) THEN g + 1 ELSE 0

\* HTML_RE  <[^>]+>
HtmlMatchEnd(s, i) ==
    IF ~(i <= Len(s) /\ s[i] = "<") THEN 0
    ELSE LET g == SkipNotIn(s, i + 1, {">"})
         IN  IF g > i + 1 /\ g <= Len(s) THEN g + 1 ELSE 0

\* LINK_PIPE_RE  \[\[([^\]|]*)\|([^\]]*)\]\]   the index of the pipe
LinkPipeBar(s, i) ==
    IF ~LitAt(s, i, <<"[", "[">>) THEN 0
    ELSE LET a == SkipNotIn(s, i + 2, {"]", "|"})
         IN  IF a <= Len(s) /\ s[a] = "|" THEN a ELSE 0

LinkPipeMatchEnd(s, i) ==
    LET a == LinkPipeBar(s, i)
    IN  IF a = 0 THEN 0
        ELSE LET b == SkipNotIn(s, a + 1, {"]"})
             IN  IF LitAt(s, b, <<"]", "]">>) THEN b + 2 ELSE 0

\* LINK_RE  \[\[([^\]]*)\]\]
LinkMatchEnd(s, i) ==
    IF ~LitAt(s, i, <<"[", "[">>) THEN 0
    ELSE LET b == SkipNotIn(s, i + 2, {"]"})
         IN  IF LitAt(s, b, <<"]", "]">>) THEN b + 2 ELSE 0

\* A run of spaces alone, to compare MultiSpaceMatchEnd with.
MultiSpaceMatchEndSpacesOnly(s, i) ==
    IF i <= Len(s) /\ s[i] = " " THEN SkipIn(s, i, {" "}) ELSE 0

\* MULTI_SPACE_RE  [ \t]+
MultiSpaceMatchEnd(s, i) ==
    IF i <= Len(s) /\ s[i] \in {" ", "\t"} THEN SkipIn(s, i, {" ", "\t"}) ELSE 0

MultiSpaceRepl(s, i, e) == <<" ">>

\* MULTI_NEWLINE_RE  \n{3,}
MultiNewlineMatchEnd(s, i) ==
    IF LitAt(s, i, <<"\n", "\n", "\n">>) THEN SkipIn(s, i, {"\n"}) ELSE 0

MultiNewlineRepl(s, i, e) == <<"\n", "\n">>

-----------------------------------------------------------------------------
(* html_escape, parser.rs 103-110, and urlencoding::encode.                *)

\* One `replace(from, to)` of a single character.
ReplaceChar(s, from, to) ==
    Flatten([k \in DOMAIN s |-> IF s[k] = from THEN to ELSE <<s[k]>>])

\* An escape that forgets the two quote characters, to compare html_escape with.
html_escape_without_quotes(s) ==
    LET s1 == ReplaceChar(s, "&", <<"&", "a", "m", "p", ";">>)
        s2 == ReplaceChar(s1, "<", <<"&", "l", "t", ";">>)
    IN  ReplaceChar(s2, ">", <<"&", "g", "t", ";">>)

html_escape(s) ==
    LET s1 == ReplaceChar(s, "&", <<"&", "a", "m", "p", ";">>)
        s2 == ReplaceChar(s1, "<", <<"&", "l", "t", ";">>)
        s3 == ReplaceChar(s2, ">", <<"&", "g", "t", ";">>)
        s4 == ReplaceChar(s3, "\"", <<"&", "q", "u", "o", "t", ";">>)
    IN  ReplaceChar(s4, "'", <<"&", "#", "x", "2", "7", ";">>)

\* The characters urlencoding::encode leaves alone: ASCII letters, digits, - _ . ~
Unreserved == Range(UpperCase) \cup Range(LowerCase) \cup Digits \cup {"-", "_", ".", "~"}

\* The two hexadecimal digits of the (ASCII) character's byte.
HexOf(c) ==
    CASE c = " "  -> <<"2", "0">>
      [] c = "!"  -> <<"2", "1">>
      [] c = "\"" -> <<"2", "2">>
      [] c = "#"  -> <<"2", "3">>
      [] c = "&"  -> <<"2", "6">>
      [] c = "'"  -> <<"2", "7">>
      [] c = "*"  -> <<"2", "A">>
      [] c = "/"  -> <<"2", "F">>
      [] c = ":"  -> <<"3", "A">>
      [] c = ";"  -> <<"3", "B">>
      [] c = "<"  -> <<"3", "C">>
      [] c = "="  -> <<"3", "D">>
      [] c = ">"  -> <<"3", "E">>
      [] c = "["  -> <<"5", "B">>
      [] c = "]"  -> <<"5", "D">>
      [] c = "{"  -> <<"7", "B">>
      [] c = "|"  -> <<"7", "C">>
      [] c = "}"  -> <<"7", "D">>
      [] c = "\n" -> <<"0", "A">>
      [] c = "\t" -> <<"0", "9">>
      [] c = "\r" -> <<"0", "D">>
      [] c = "%"  -> <<"2", "5">>
      [] c = "("  -> <<"2", "8">>
      [] c = ")"  -> <<"2", "9">>
      [] c = ","  -> <<"2", "C">>

urlencode(s) ==
    Flatten([k \in DOMAIN s |->
        IF s[k] \in Unreserved THEN <<s[k]>>
        ELSE IF s[k] = "U+00E9" THEN <<"%", "C", "3", "%", "A", "9">>
        ELSE <<"%">> \o HexOf(s[k])])

-----------------------------------------------------------------------------
(* The template/table stripping scan, parser.rs 121-164.                   *)

TemplateClose == <<"}", "}">>
TableClose == <<"|", "}">>

\* parser.rs 130: `c == '{' && next_char == Some('{')`
IsTemplateStart(c, next_char) == c = "{" /\ next_char = "{"

\* A scan that knows no table opener, to compare IsTableStart with.
IsTableStartNever(c, next_char) == FALSE

\* parser.rs 135: `c == '{' && next_char == Some('|')`
IsTableStart(c, next_char) == c = "{" /\ next_char = "|"

\* A closer of either kind that closes whatever is open, to compare ClosesTop with.
ClosesTopAnyKind(st, c, next_char) ==
    /\ st # <<>>
    /\ \/ c = "}" /\ next_char = "}"
       \/ c = "|" /\ next_char = "}"

\* parser.rs 142-155: the closer expected by the top of the stack is met.
ClosesTop(st, c, next_char) ==
    /\ st # <<>>
    /\ LET expected_close == st[Len(st)]
       IN  \/ expected_close = TemplateClose /\ c = "}" /\ next_char = "}"
           \/ expected_close = TableClose /\ c = "|" /\ next_char = "}"

\* A push that counts the outermost structure only, to compare PushCloser with.
PushCloserOutermostOnly(st, close) == IF st = <<>> THEN Append(st, close) ELSE st

\* parser.rs 132 and 137: `stack.push(..)`, inside a structure as outside.
PushCloser(st, close) == Append(st, close)

StripOpenTemplate ==
    /\ pc = "strip"
    /\ pos <= Len(result)
    /\ IsTemplateStart(result[pos], Peek(result, pos))
    /\ pos' = Consume(pos, 2)
    /\ stack' = PushCloser(stack, TemplateClose)
    /\ UNCHANGED <<pc, arg_vars, env_vars, result, clean_buffer, depth, content, is_closed,
                 link_vars, categories, outcome>>

StripOpenTable ==
    /\ pc = "strip"
    /\ pos <= Len(result)
    /\ ~IsTemplateStart(result[pos], Peek(result, pos))
    /\ IsTableStart(result[pos], Peek(result, pos))
    /\ pos' = Consume(pos, 2)
    /\ stack' = PushCloser(stack, TableClose)
    /\ UNCHANGED <<pc, arg_vars, env_vars, result, clean_buffer, depth, content, is_closed,
                 link_vars, categories, outcome>>

StripClose ==
    /\ pc = "strip"
    /\ pos <= Len(result)
    /\ ~IsTemplateStart(result[pos], Peek(result, pos))
    /\ ~IsTableStart(result[pos], Peek(result, pos))
    /\ ClosesTop(stack, result[pos], Peek(result, pos))
    /\ pos' = Consume(pos, 2)
    /\ stack' = SubSeq(stack, 1, Len(stack) - 1)
    /\ UNCHANGED <<pc, arg_vars, env_vars, result, clean_buffer, depth, content, is_closed,
                 link_vars, categories, outcome>>

StripIgnore ==
    /\ pc = "strip"
    /\ pos <= Len(result)
    /\ ~IsTemplateStart(result[pos], Peek(result, pos))
    /\ ~IsTableStart(result[pos], Peek(result, pos))
    /\ stack # <<>>
    /\ ~ClosesTop(stack, result[pos], Peek(result, pos))
    /\ pos' = Consume(pos, 1)
    /\ UNCHANGED <<pc, arg_vars, env_vars, result, clean_buffer, scan_vars, link_vars,
                 categories, outcome>>

StripKeep ==
    /\ pc = "strip"
    /\ pos <= Len(result)
    /\ ~IsTemplateStart(result[pos], Peek(result, pos))
    /\ ~IsTableStart(result[pos], Peek(result, pos))
    /\ stack = <<>>
    /\ clean_buffer' = Append(clean_buffer, result[pos])
    /\ pos' = Consume(pos, 1)
    /\ UNCHANGED <<pc, arg_vars, env_vars, result, scan_vars, link_vars, categories, outcome>>

\* parser.rs 164: the loop is over, `result = clean_buffer`.
StripEnd ==
    /\ pc = "strip"
    /\ pos > Len(result)
    /\ result' = clean_buffer
    /\ pc' = "refs"
    /\ UNCHANGED <<arg_vars, env_vars, pos, clean_buffer, scan_vars, link_vars, categories,
                 outcome>>

-----------------------------------------------------------------------------
(* Reference and comment removal, parser.rs 166-171.                       *)

\* What a step of the pipeline leaves alone besides `result` and `pc`.
stage_frame == <<arg_vars, env_vars, pos, clean_buffer, scan_vars, link_vars, categories, outcome>>

RemoveRefs ==
    /\ pc = "refs"
    /\ result' = ReplaceAll(result, RefMatchEnd, Delete)
    /\ pc' = "refs_self"
    /\ UNCHANGED stage_frame

RemoveSelfClosingRefs ==
    /\ pc = "refs_self"
    /\ result' = ReplaceAll(result, RefSelfMatchEnd, Delete)
    /\ pc' = "comments"
    /\ UNCHANGED stage_frame

\* parser.rs 171, then 175-176: a fresh `clean_buffer` and `chars` for the link scan.
RemoveComments ==
    /\ pc = "comments"
    /\ result' = ReplaceAll(result, CommentMatchEnd, Delete)
    /\ pc' = "files"
    /\ clean_buffer' = <<>>
    /\ pos' = 1
    /\ UNCHANGED <<arg_vars, env_vars, scan_vars, link_vars, categories, outcome>>

-----------------------------------------------------------------------------
(* The file/image/category link scan, parser.rs 173-229.                   *)

LinkOpen == <<"[", "[">>
LinkClose == <<"]", "]">>

\* A test of the prefix as it is written, to compare IsFileLink with.
IsFileLinkAsWritten(c) ==
    LET lower_content == trim_start(c)
    IN  \/ starts_with(lower_content, <<"f", "i", "l", "e", ":">>)
        \/ starts_with(lower_content, <<"i", "m", "a", "g", "e", ":">>)
        \/ starts_with(lower_content, <<"c", "a", "t", "e", "g", "o", "r", "y", ":">>)

\* parser.rs 209-212: the captured content names a file, an image or a category.
IsFileLink(c) ==
    LET lower_content == to_lowercase(trim_start(c))
    IN  \/ starts_with(lower_content, <<"f", "i", "l", "e", ":">>)
        \/ starts_with(lower_content, <<"i", "m", "a", "g", "e", ":">>)
        \/ starts_with(lower_content, <<"c", "a", "t", "e", "g", "o", "r", "y", ":">>)

\* parser.rs 226: a character outside any link is copied.
FilesCopy ==
    /\ pc = "files"
    /\ pos <= Len(result)
    /\ ~(result[pos] = "[" /\ Peek(result, pos) = "[")
    /\ clean_buffer' = Append(clean_buffer, result[pos])
    /\ pos' = Consume(pos, 1)
    /\ UNCHANGED <<pc, arg_vars, env_vars, result, scan_vars, link_vars, categories, outcome>>

\* parser.rs 179-187: `[[` starts the read-ahead.
FilesOpen ==
    /\ pc = "files"
    /\ pos <= Len(result)
    /\ result[pos] = "[" /\ Peek(result, pos) = "["
    /\ pos' = Consume(pos, 2)
    /\ depth' = 1
    /\ content' = <<>>
    /\ is_closed' = FALSE
    /\ pc' = "files_inner"
    /\ UNCHANGED <<arg_vars, env_vars, result, clean_buffer, stack, link_vars, categories, outcome>>

\* parser.rs 190-193
InnerNested ==
    /\ pc = "files_inner"
    /\ pos <= Len(result)
    /\ result[pos] = "[" /\ Peek(result, pos) = "["
    /\ pos' = Consume(pos, 2)
    /\ depth' = depth + 1
    /\ content' = content \o LinkOpen
    /\ UNCHANGED <<pc, arg_vars, env_vars, result, clean_buffer, stack, is_closed, link_vars,
                   categories, outcome>>

\* parser.rs 194-201
InnerClose ==
    /\ pc = "files_inner"
    /\ pos <= Len(result)
    /\ result[pos] = "]" /\ Peek(result, pos) = "]"
    /\ pos' = Consume(pos, 2)
    /\ depth' = depth - 1
    /\ IF depth' = 0
       THEN is_closed' = TRUE /\ pc' = "files_decide" /\ content' = content
       ELSE is_closed' = is_closed /\ pc' = pc /\ content' = content \o LinkClose
    /\ UNCHANGED <<arg_vars, env_vars, result, clean_buffer, stack, link_vars, categories, outcome>>

\* parser.rs 202-204
InnerPush ==
    /\ pc = "files_inner"
    /\ pos <= Len(result)
    /\ ~(result[pos] = "[" /\ Peek(result, pos) = "[")
    /\ ~(result[pos] = "]" /\ Peek(result, pos) = "]")
    /\ content' = Append(content, result[pos])
    /\ pos' = Consume(pos, 1)
    /\ UNCHANGED <<pc, arg_vars, env_vars, result, clean_buffer, stack, depth, is_closed,
                   link_vars, categories, outcome>>

\* parser.rs 189: the read-ahead ran into the end of the input.
InnerEnd ==
    /\ pc = "files_inner"
    /\ pos > Len(result)
    /\ pc' = "files_decide"
    /\ UNCHANGED <<arg_vars, env_vars, result, pos, clean_buffer, scan_vars, link_vars,
                   categories, outcome>>

\* An emit that drops a span that is not closed, to compare FilesEmit with.
FilesEmitClosedOnly(closed, c) ==
    IF closed
    THEN IF IsFileLink(c) THEN <<>> ELSE LinkOpen \o c \o LinkClose
    ELSE <<>>

\* parser.rs 207-224: what the scan emits for the span just read.
FilesEmit(closed, c) ==
    IF closed
    THEN IF IsFileLink(c) THEN <<>> ELSE LinkOpen \o c \o LinkClose
    ELSE LinkOpen \o c

FilesDecide ==
    /\ pc = "files_decide"
    /\ clean_buffer' = clean_buffer \o FilesEmit(is_closed, content)
    /\ pc' = "files"
    /\ UNCHANGED <<arg_vars, env_vars, result, pos, scan_vars, link_vars, categories, outcome>>

\* parser.rs 229
FilesEnd ==
    /\ pc = "files"
    /\ pos > Len(result)
    /\ result' = clean_buffer
    /\ pc' = "ext_links"
    /\ UNCHANGED stage_frame

-----------------------------------------------------------------------------
(* External links, bold/italic, headers, bullets, tags: parser.rs 231-245. *)

RewriteExternalLinks ==
    /\ pc = "ext_links"
    /\ result' = ReplaceAll(result, ExtLinkMatchEnd, ExtLinkRepl)
    /\ pc' = "bold"
    /\ UNCHANGED stage_frame

Bold == <<"'", "'", "'">>
Italic == <<"'", "'">>
BoldMatchEnd(s, i) == LitMatchEnd(Bold, s, i)
ItalicMatchEnd(s, i) == LitMatchEnd(Italic, s, i)

\* parser.rs 236: the two literal replaces, the triple quote first.
RemoveBoldItalic ==
    /\ pc = "bold"
    /\ result' = ReplaceAll(ReplaceAll(result, BoldMatchEnd, Delete), ItalicMatchEnd, Delete)
    /\ pc' = "headers"
    /\ UNCHANGED stage_frame

RemoveHeaders ==
    /\ pc = "headers"
    /\ result' = ReplaceAll(result, HeaderMatchEnd, HeaderRepl)
    /\ pc' = "bullets"
    /\ UNCHANGED stage_frame

RemoveBullets ==
    /\ pc = "bullets"
    /\ result' = ReplaceAll(result, BulletMatchEnd, Delete)
    /\ pc' = "html"
    /\ UNCHANGED stage_frame

\* parser.rs 245, then the replace_all of 248 starts at the head of `result`
\* with an empty output.
RemoveHtmlTags ==
    /\ pc = "html"
    /\ result' = ReplaceAll(result, HtmlMatchEnd, Delete)
    /\ pc' = "link_pipe"
    /\ pos' = 1
    /\ clean_buffer' = <<>>
    /\ UNCHANGED <<arg_vars, env_vars, scan_vars, link_vars, categories, outcome>>

-----------------------------------------------------------------------------
(* The link rewriter, parser.rs 247-278.  Each call of a closure is a step *)
(* of replace_all: `pos` is the end of the last match, `clean_buffer` the  *)
(* text built so far.                                                      *)

AnchorHead == <<"<", "a", " ", "h", "r", "e", "f", "=", "\"", "/", "w", "i", "k", "i", "/">>
AnchorMid == <<"\"", ">">>
AnchorTail == <<"<", "/", "a", ">">>

\* An anchor whose href is the target as it stands, to compare Anchor with.
AnchorUnencoded(target, visible) ==
    AnchorHead \o target \o AnchorMid \o html_escape(visible) \o AnchorTail

\* format!("<a href=\"/wiki/{}\">{}</a>", urlencoding::encode(target), html_escape(text))
Anchor(target, visible) ==
    AnchorHead \o urlencode(target) \o AnchorMid \o html_escape(visible) \o AnchorTail

\* A normalisation that keeps the underscores, to compare NormalizeTitle with.
NormalizeTitleCaseOnly(target) == to_lowercase(target)

\* target.to_lowercase().replace('_', " ")
NormalizeTitle(target) == ReplaceChar(to_lowercase(target), "_", <<" ">>)

\* parser.rs 252-261 and 268-277: the body of both closures.
LinkReplacement(target, visible, valid) ==
    IF valid # None
    THEN IF NormalizeTitle(target) \in Unwrap(valid)
         THEN Anchor(target, visible)
         ELSE html_escape(visible)
    ELSE Anchor(target, visible)

\* parser.rs 248-262: the closure runs on the next `[[target|text]]`.
LinkPipeReplace ==
    /\ pc = "link_pipe"
    /\ LET m == NextMatch(result, pos, LinkPipeMatchEnd)
       IN  /\ m > 0
           /\ LET e == LinkPipeMatchEnd(result, m)
                  bar == LinkPipeBar(result, m)
                  target == SubSeq(result, m + 2, bar - 1)
                  visible == SubSeq(result, bar + 1, e - 3)
                  r == LinkReplacement(target, visible, valid_titles)
              IN  /\ caps' = Some([target |-> target, text |-> visible])
                  /\ replacement' = Some(r)
                  /\ clean_buffer' = clean_buffer \o SubSeq(result, pos, m - 1) \o r
                  /\ pos' = e
    /\ UNCHANGED <<pc, arg_vars, env_vars, result, scan_vars, categories, outcome>>

\* parser.rs 262: no match is left; `.to_string()`, and the replace_all of 265 starts.
LinkPipeEnd ==
    /\ pc = "link_pipe"
    /\ NextMatch(result, pos, LinkPipeMatchEnd) = 0
    /\ result' = clean_buffer \o From(result, pos)
    /\ pc' = "link"
    /\ pos' = 1
    /\ clean_buffer' = <<>>
    /\ caps' = None
    /\ replacement' = None
    /\ UNCHANGED <<arg_vars, env_vars, scan_vars, categories, outcome>>

\* parser.rs 265-278: the closure runs on the next `[[target]]`.
LinkReplace ==
    /\ pc = "link"
    /\ LET m == NextMatch(result, pos, LinkMatchEnd)
       IN  /\ m > 0
           /\ LET e == LinkMatchEnd(result, m)
                  target == SubSeq(result, m + 2, e - 3)
                  r == LinkReplacement(target, target, valid_titles)
              IN  /\ caps' = Some([target |-> target, text |-> target])
                  /\ replacement' = Some(r)
                  /\ clean_buffer' = clean_buffer \o SubSeq(result, pos, m - 1) \o r
                  /\ pos' = e
    /\ UNCHANGED <<pc, arg_vars, env_vars, result, scan_vars, categories, outcome>>

LinkEnd ==
    /\ pc = "link"
    /\ NextMatch(result, pos, LinkMatchEnd) = 0
    /\ result' = clean_buffer \o From(result, pos)
    /\ pc' = "spaces"
    /\ caps' = None
    /\ replacement' = None
    /\ UNCHANGED <<arg_vars, env_vars, pos, clean_buffer, scan_vars, categories, outcome>>

-----------------------------------------------------------------------------
(* Whitespace, parser.rs 280-284.                                          *)

CollapseSpaces ==
    /\ pc = "spaces"
    /\ result' = ReplaceAll(result, MultiSpaceMatchEnd, MultiSpaceRepl)
    /\ pc' = "newlines"
    /\ UNCHANGED stage_frame

CollapseNewlines ==
    /\ pc = "newlines"
    /\ result' = ReplaceAll(result, MultiNewlineMatchEnd, MultiNewlineRepl)
    /\ pc' = "trim"
    /\ UNCHANGED stage_frame

\* parser.rs 284: `result.trim().to_string()` is the value returned.
Trim ==
    /\ pc = "trim"
    /\ result' = trim(result)
    /\ pc' = "cleaned"
    /\ UNCHANGED stage_frame

-----------------------------------------------------------------------------
(* The page classifier, parser.rs 20-99 and 287-322.                       *)

SKIP_PREFIXES ==
    << <<"W", "i", "k", "i", "p", "e", "d", "i", "a", ":">>,
       <<"T", "e", "m", "p", "l", "a", "t", "e", ":">>,
       <<"C", "a", "t", "e", "g", "o", "r", "y", ":">>,
       <<"F", "i", "l", "e", ":">>,
       <<"I", "m", "a", "g", "e", ":">>,
       <<"H", "e", "l", "p", ":">>,
       <<"P", "o", "r", "t", "a", "l", ":">>,
       <<"D", "r", "a", "f", "t", ":">>,
       <<"M", "e", "d", "i", "a", "W", "i", "k", "i", ":">>,
       <<"M", "o", "d", "u", "l", "e", ":">>,
       <<"U", "s", "e", "r", ":">>,
       <<"T", "a", "l", "k", ":">>,
       <<"U", "s", "e", "r", " ", "t", "a", "l", "k", ":">>,
       <<"W", "i", "k", "i", "p", "e", "d", "i", "a", " ", "t", "a", "l", "k", ":">>,
       <<"T", "e", "m", "p", "l", "a", "t", "e", " ", "t", "a", "l", "k", ":">>,
       <<"C", "a", "t", "e", "g", "o", "r", "y", " ", "t", "a", "l", "k", ":">>,
       <<"F", "i", "l", "e", " ", "t", "a", "l", "k", ":">>,
       <<"H", "e", "l", "p", " ", "t", "a", "l", "k", ":">>,
       <<"P", "o", "r", "t", "a", "l", " ", "t", "a", "l", "k", ":">>,
       <<"D", "r", "a", "f", "t", " ", "t", "a", "l", "k", ":">> >>

\* parser.rs 84-91
is_content_article(t) ==
    ~\E k \in DOMAIN SKIP_PREFIXES : starts_with(t, SKIP_PREFIXES[k])

\* A test that compares the letters as they are written, to compare is_redirect with.
is_redirect_as_written(t) ==
    LET lower == trim(t)
    IN  \/ starts_with(lower, <<"#", "r", "e", "d", "i", "r", "e", "c", "t">>)
        \/ starts_with(lower, <<"#", " ", "r", "e", "d", "i", "r", "e", "c", "t">>)

\* parser.rs 59-62
is_redirect(t) ==
    LET lower == to_lowercase(trim(t))
    IN  \/ starts_with(lower, <<"#", "r", "e", "d", "i", "r", "e", "c", "t">>)
        \/ starts_with(lower, <<"#", " ", "r", "e", "d", "i", "r", "e", "c", "t">>)

\* A target that keeps the pipe and the display, to compare extract_redirect_target with.
extract_redirect_target_uncut(t) ==
    IF ~is_redirect(t) THEN None
    ELSE LET m == NextMatch(t, 1, LinkMatchEnd)
         IN  IF m = 0 THEN None
             ELSE Some(SubSeq(t, m + 2, LinkMatchEnd(t, m) - 3))

\* parser.rs 65-81: the first group of the first LINK_RE match, cut at its
\* first pipe; None when the text is no redirect or holds no link.
extract_redirect_target(t) ==
    IF ~is_redirect(t) THEN None
    ELSE LET m == NextMatch(t, 1, LinkMatchEnd)
         IN  IF m = 0 THEN None
             ELSE LET full == SubSeq(t, m + 2, LinkMatchEnd(t, m) - 3)
                      pipe_pos == SkipNotIn(full, 1, {"|"})
                  IN  Some(SubSeq(full, 1, pipe_pos - 1))

\* parser.rs 95: the pattern  \[\[Category:([^\]|]+)
CategoryOpen == <<"[", "[", "C", "a", "t", "e", "g", "o", "r", "y", ":">>

CategoryMatchEnd(s, i) ==
    IF ~LitAt(s, i, CategoryOpen) THEN 0
    ELSE LET b == SkipNotIn(s, i + Len(CategoryOpen), {"]", "|"})
         IN  IF b > i + Len(CategoryOpen) THEN b ELSE 0

\* parser.rs 94-99: the trimmed first group of every match, in order.
extract_categories(s) ==
    LET starts == {k \in 1..Len(s) : CategoryMatchEnd(s, k) > 0}
        RECURSIVE go(_)
        go(i) ==
            LET ahead == {k \in starts : k >= i}
            IN  IF ahead = {} THEN <<>>
                ELSE LET m == CHOOSE k \in ahead : \A j \in ahead : k <= j
                         e == CategoryMatchEnd(s, m)
                     IN  <<trim(SubSeq(s, m + Len(CategoryOpen), e - 1))>> \o go(e)
    IN  go(1)

\* A character outside ASCII: U+00E9, two bytes in UTF-8.
EAcute == "U+00E9"
MultiByte == {EAcute}

\* A length that counts every character as one byte, to compare Utf8Len with.
Utf8LenOfAscii(c) == 1

\* The number of bytes of a character in UTF-8.
Utf8Len(c) == IF c \in MultiByte THEN 2 ELSE 1

\* String::len: the length in bytes.
RECURSIVE ByteLen(_)
ByteLen(s) ==
    IF s = <<>> THEN 0
    ELSE IF Len(s) = 1 THEN Utf8Len(s[1])
    ELSE ByteLen(SubSeq(s, 1, Len(s) \div 2)) + ByteLen(SubSeq(s, Len(s) \div 2 + 1, Len(s)))

\* The call has not returned yet.
Running == [kind |-> "Running"]

\* parse_article returned None.
NoOutcome == [kind |-> "None"]

\* The locals of the cleaner as parser.rs 119-124 sets them up.
CleanerStarts(t) ==
    /\ result' = t
    /\ clean_buffer' = <<>>
    /\ stack' = <<>>
    /\ pos' = 1

\* parser.rs 113-115 and 118-124: clean_wiki_markup(_with_filter) is entered.
CleanEnter ==
    /\ pc = "clean"
    /\ CleanerStarts(text)
    /\ pc' = "strip"
    /\ UNCHANGED <<arg_vars, env_vars, depth, content, is_closed, link_vars, categories, outcome>>

\* parser.rs 284: the cleaner returns to its caller.
CleanReturn ==
    /\ pc = "cleaned"
    /\ entry \in {"clean", "again", "filtered"}
    /\ outcome' = [kind |-> "Text", content |-> result]
    /\ pc' = "done"
    /\ UNCHANGED <<arg_vars, env_vars, result, pos, clean_buffer, scan_vars, link_vars, categories>>

\* A caller that cleans a text twice: the first call returned, the second is
\* entered with the first one's output as its `text`.
CleanAgain ==
    /\ pc = "cleaned"
    /\ entry = "twice"
    /\ entry' = "again"
    /\ text' = result
    /\ CleanerStarts(result)
    /\ pc' = "strip"
    /\ UNCHANGED <<title, min_length, valid_titles, depth, content, is_closed, link_vars,
                   categories, outcome, env_vars>>

\* The title sets of the pruning mode that the stored articles are cleaned
\* against: normalised titles.
PruneTitleSets == {{<<"a">>, <<"b", " ">>, <<" ">>}, {<<"a", "b">>, <<"a", " ">>, <<EAcute>>}}

\* A text is cleaned in open mode and its content stored as an article of
\* articles.jsonl (downloader.rs 303-317); the same text is then cleaned in
\* pruning mode, with the title set that prune_articles uses as its index.
CleanFiltered ==
    /\ pc = "cleaned"
    /\ entry = "stored"
    /\ entry' = "filtered"
    /\ articles_file' = Some(<<[kind |-> "article", title |-> title, content |-> result]>>)
    /\ \E v \in PruneTitleSets :
           /\ title_index' = v
           /\ valid_titles' = Some(v)
    /\ CleanerStarts(text)
    /\ pc' = "strip"
    /\ UNCHANGED <<title, min_length, text, depth, content, is_closed, link_vars,
                   categories, outcome, prune_pc, temp_file, reader, article, last_match,
                   new_content, decisions, worker_vars, extract_vars, update_vars>>

\* The two checks in the other order, to compare ParseBranch with.
ParseBranchRedirectFirst(ti, tx) ==
    IF is_redirect(tx) THEN "redirect"
    ELSE IF ~is_content_article(ti) THEN "skip"
    ELSE "content"

\* parser.rs 290-303: the order of parse_article's checks.
ParseBranch(ti, tx) ==
    IF ~is_content_article(ti) THEN "skip"
    ELSE IF is_redirect(tx) THEN "redirect"
    ELSE "content"

\* parser.rs 290-292
ParseSkipNamespace ==
    /\ pc = "parse"
    /\ ParseBranch(title, text) = "skip"
    /\ outcome' = NoOutcome
    /\ pc' = "done"
    /\ UNCHANGED <<arg_vars, env_vars, result, pos, clean_buffer, scan_vars, link_vars, categories>>

\* parser.rs 295-303
ParseRedirect ==
    /\ pc = "parse"
    /\ ParseBranch(title, text) = "redirect"
    /\ LET target == extract_redirect_target(text)
       IN  outcome' = IF target # None
                      THEN [kind |-> "Redirect", title |-> title, target |-> Unwrap(target)]
                      ELSE NoOutcome
    /\ pc' = "done"
    /\ UNCHANGED <<arg_vars, env_vars, result, pos, clean_buffer, scan_vars, link_vars, categories>>

\* parser.rs 306-309: the categories are taken from the original text, then
\* clean_wiki_markup(text) is entered.
ParseContent ==
    /\ pc = "parse"
    /\ ParseBranch(title, text) = "content"
    /\ categories' = extract_categories(text)
    /\ CleanerStarts(text)
    /\ pc' = "strip"
    /\ UNCHANGED <<arg_vars, env_vars, depth, content, is_closed, link_vars, outcome>>

\* parser.rs 312-321
ParseFinish ==
    /\ pc = "cleaned"
    /\ entry = "parse"
    /\ outcome' = IF ByteLen(result) < min_length
                  THEN NoOutcome
                  ELSE [kind |-> "Article", title |-> title, content |-> result,
                        categories |-> categories]
    /\ pc' = "done"
    /\ UNCHANGED <<arg_vars, env_vars, result, pos, clean_buffer, scan_vars, link_vars, categories>>

-----------------------------------------------------------------------------
(* Inputs.                                                                 *)

\* A call of the cleaner, of the cleaner twice in a row, of parse_article.
CleanCase(t, v) ==
    [entry |-> "clean", title |-> <<>>, min_length |-> 0, text |-> t, valid_titles |-> v]
TwiceCase(t) ==
    [entry |-> "twice", title |-> <<>>, min_length |-> 0, text |-> t, valid_titles |-> None]
StoredCase(t) ==
    [entry |-> "stored", title |-> <<>>, min_length |-> 0, text |-> t, valid_titles |-> None]
ParseCase(ti, t, ml) ==
    [entry |-> "parse", title |-> ti, min_length |-> ml, text |-> t, valid_titles |-> None]

\* The examples of the specification's section 8 and of the tests of
\* parser.rs 352-399, and three texts that take the remaining branches.
NestedTemplate == <<"X", "{", "{", "a", "{", "{", "b", "}", "}", "c", "}", "}", "Y">>
TwoLinks ==
    <<"T", "h", "i", "s", " ", "i", "s", " ", "a", " ", "[", "[", "l", "i", "n", "k", "]", "]", " ", "a", "n", "d", " ", "[", "[", "t", "a", "r", "g", "e", "t", "|", "d", "i", "s", "p", "l", "a", "y", "e", "d", " ", "t", "e", "x", "t", "]", "]", ".">>
TwoLinksCleaned ==
    <<"T", "h", "i", "s", " ", "i", "s", " ", "a", " ", "<", "a", " ", "h", "r", "e", "f", "=", "\"", "/", "w", "i", "k", "i", "/", "l", "i", "n", "k", "\"", ">", "l", "i", "n", "k", "<", "/", "a", ">", " ", "a", "n", "d", " ", "<", "a", " ", "h", "r", "e", "f", "=", "\"", "/", "w", "i", "k", "i", "/", "t", "a", "r", "g", "e", "t", "\"", ">", "d", "i", "s", "p", "l", "a", "y", "e", "d", " ", "t", "e", "x", "t", "<", "/", "a", ">", ".">>
ScriptLink ==
    <<"[", "[", "<", "s", "c", "r", "i", "p", "t", ">", "a", "l", "e", "r", "t", "(", "1", ")", "<", "/", "s", "c", "r", "i", "p", "t", ">", "]", "]">>
QuoteLink ==
    <<"[", "[", "L", "i", "n", "k", "|", "T", "e", "x", "t", " ", "\"", " ", "w", "i", "t", "h", " ", "q", "u", "o", "t", "e", "s", "]", "]">>
MissingPage == <<"[", "[", "M", "i", "s", "s", "i", "n", "g", " ", "P", "a", "g", "e", "|", "t", "e", "x", "t", "]", "]">>
ExistingPage == <<"[", "[", "E", "x", "i", "s", "t", "i", "n", "g", " ", "P", "a", "g", "e", "|", "t", "e", "x", "t", "]", "]">>
KnownTitles == {<<"e", "x", "i", "s", "t", "i", "n", "g", " ", "p", "a", "g", "e">>}
TableAndFiles == <<"{", "|", "t", "|", "}", "[", "[", "F", "i", "l", "e", ":", "a", "|", "[", "[", "b", "]", "]", "]", "]", "[", "[", "c">>
TwoCategories ==
    <<"S", "o", "m", "e", " ", "t", "e", "x", "t", " ", "[", "[", "C", "a", "t", "e", "g", "o", "r", "y", ":", "S", "c", "i", "e", "n", "c", "e", "]", "]", " ", "a", "n", "d", " ", "[", "[", "C", "a", "t", "e", "g", "o", "r", "y", ":", "P", "h", "y", "s", "i", "c", "s", "]", "]", " ", "m", "o", "r", "e", " ", "t", "e", "x", "t", ".">>
RedirectUpper == <<"#", "R", "E", "D", "I", "R", "E", "C", "T", " ", "[", "[", "T", "a", "r", "g", "e", "t", "]", "]">>
RedirectSpaced == <<"#", " ", "r", "e", "d", "i", "r", "e", "c", "t", " ", "[", "[", "T", "a", "r", "g", "e", "t", "]", "]">>
RedirectStates == <<"#", "R", "E", "D", "I", "R", "E", "C", "T", " ", "[", "[", "U", "n", "i", "t", "e", "d", " ", "S", "t", "a", "t", "e", "s", "]", "]">>
NormalText == <<"N", "o", "r", "m", "a", "l", " ", "a", "r", "t", "i", "c", "l", "e", " ", "t", "e", "x", "t">>
AlbertEinstein == <<"A", "l", "b", "e", "r", "t", " ", "E", "i", "n", "s", "t", "e", "i", "n">>
WikipediaAbout == <<"W", "i", "k", "i", "p", "e", "d", "i", "a", ":", "A", "b", "o", "u", "t">>
CategoryScience == <<"C", "a", "t", "e", "g", "o", "r", "y", ":", "S", "c", "i", "e", "n", "c", "e">>

GoldenCases ==
    {CleanCase(t, None) : t \in {NestedTemplate, TwoLinks, ScriptLink, QuoteLink, TableAndFiles}}
    \cup {CleanCase(t, Some(KnownTitles)) : t \in {MissingPage, ExistingPage}}
    \cup {TwiceCase(t) : t \in {NestedTemplate, NormalText}}
    \cup {StoredCase(TwoLinks)}
    \cup {ParseCase(AlbertEinstein, t, 0) : t \in {TwoCategories, RedirectStates}}
    \cup {ParseCase(ti, NormalText, 0) : ti \in {WikipediaAbout, CategoryScience}}

\* Texts of braces, pipes and letters, for the template/table stripping scan.
MaxBraceTokens == 5

BraceTokens == {<<"{", "{">>, <<"}", "}">>, <<"{", "|">>, <<"|", "}">>, <<"a">>, <<"|">>}

BraceTexts == {Flatten(ts) : ts \in SeqsUpTo(BraceTokens, MaxBraceTokens)}

BraceCases == {CleanCase(t, None) : t \in BraceTexts}

\* Links `[[target]]` and `[[target|display]]`, for the link rewriter: targets
\* that normalisation and percent-encoding change, displays that escaping changes.
MaxTarget == 2
MaxDisplay == 2
TargetChars == {"a", "B", "_", " ", EAcute}
DisplayChars == {"t", "<", ">", "&", "\"", "'"}
Targets == SeqsUpTo(TargetChars, MaxTarget)
Displays == SeqsUpTo(DisplayChars, MaxDisplay)
PipedLink(target, display) == LinkOpen \o target \o <<"|">> \o display \o LinkClose
PlainLink(target) == LinkOpen \o target \o LinkClose
LinkTexts ==
    {PipedLink(t, d) : t \in Targets, d \in Displays} \cup {PlainLink(t) : t \in Targets}

\* Without a set of known titles (open mode) and with one, of normalised titles.
KnownShort == {<<"a">>, <<"b", " ">>, <<" ">>}
KnownOther == {<<"a", "b">>, <<EAcute>>}
LinkCases ==
    {CleanCase(t, v) : t \in LinkTexts, v \in {None, Some(KnownShort)}}
    \cup {CleanCase(PlainLink(t), Some(KnownOther)) : t \in Targets}
    \cup {CleanCase(TwoLinks, Some({<<"l", "i", "n", "k">>}))}

\* Texts of tags, angle brackets and links, for the tag removal and what
\* follows it.
MaxTagTokens == 4
ScriptWord == <<"s", "c", "r", "i", "p", "t">>
ScriptTag == <<"<">> \o ScriptWord \o <<">">>
ScriptEndTag == <<"<", "/">> \o ScriptWord \o <<">">>
TagTokens ==
    {ScriptTag, ScriptEndTag, ScriptWord, <<"<">>, <<">">>, LinkOpen, LinkClose, <<"|">>, <<" ">>}
TagTexts == {Flatten(ts) : ts \in SeqsUpTo(TagTokens, MaxTagTokens)}
TagCases == {CleanCase(t, None) : t \in TagTexts}

\* Titles in and around the namespaces: each namespace name as it is written
\* and in lower case, alone or with a subject or talk suffix, with or without
\* a page name, at the head of the title or after a space.
NamespaceNames ==
    {<<"W", "i", "k", "i", "p", "e", "d", "i", "a">>, <<"T", "e", "m", "p", "l", "a", "t", "e">>,
     <<"C", "a", "t", "e", "g", "o", "r", "y">>, <<"F", "i", "l", "e">>, <<"I", "m", "a", "g", "e">>,
     <<"H", "e", "l", "p">>, <<"P", "o", "r", "t", "a", "l">>, <<"D", "r", "a", "f", "t">>,
     <<"M", "e", "d", "i", "a", "W", "i", "k", "i">>, <<"M", "o", "d", "u", "l", "e">>,
     <<"U", "s", "e", "r">>, <<"T", "a", "l", "k">>}
TalkSuffix == <<" ", "t", "a", "l", "k", ":">>
Titles ==
    {lead \o name \o suffix \o page :
        lead \in {<<>>, <<" ">>},
        name \in NamespaceNames \cup {to_lowercase(n) : n \in NamespaceNames},
        suffix \in {<<>>, <<":">>, TalkSuffix, <<" ", "T", "a", "l", "k", ":">>, <<"_", "t", "a", "l", "k", ":">>},
        page \in {<<>>, <<"F", "o", "o">>}}
    \cup {<<>>, AlbertEinstein}

\* Page texts: plain, redirects with and without a target, with categories,
\* empty, and one whose length in bytes is not its length in characters.
RedirectNoTarget == <<"#", "R", "E", "D", "I", "R", "E", "C", "T", " ", "T", "a", "r", "g", "e", "t">>
Accented == <<"c", "a", "f", EAcute>>
PageTexts == {NormalText, RedirectUpper, RedirectSpaced, RedirectNoTarget, TwoCategories, Accented, <<>>}

\* WikiParser::new() sets min_length to 200.
DefaultMinLength == 200
MinLengths ==
    {0, Len(Accented) + 1, Len(NormalText), Len(NormalText) + 1, Len(TwoCategories),
     DefaultMinLength}

ParseCases == {ParseCase(ti, t, ml) : ti \in Titles, t \in PageTexts, ml \in MinLengths}

\* Texts in and around the redirect syntax: leading whitespace, the hash and
\* what follows it, the keyword in several letter cases or misspelt, and what
\* follows the keyword: links, piped links, broken links, none.
RedirectLeads == {<<>>, <<" ">>, <<"\n">>, <<"\t", " ">>, <<"x">>}
RedirectHashes == {<<"#">>, <<"#", " ">>, <<"#", " ", " ">>, <<"#", "\t">>, <<>>}
RedirectWords == {<<"r", "e", "d", "i", "r", "e", "c", "t">>, <<"R", "E", "D", "I", "R", "E", "C", "T">>, <<"r", "E", "d", "I", "r", "E", "c", "T">>, <<"r", "e", "d", "i", "r", "e", "c">>, <<"r", "e", "d", "i", "r", "e", "c", "t", "e", "d">>}
RedirectTails ==
    {<<>>, <<" ", "[", "[", "T", "]", "]">>, <<" ", "[", "[", "T", "|", "D", "]", "]">>, <<" ", "[", "[", "T", "|", "D", "|", "E", "]", "]">>, <<" ", "[", "[", "T", "]", "]", " ", "[", "[", "U", "|", "V", "]", "]">>, <<" ", "[", "[", "a", " ", "[", "[", "b", "|", "c", "]", "]">>, <<" ", "[", "[", "]", "]">>, <<" ", "[", "[", "T", "]">>, <<" ", "x", " ">>, <<"[", "[", "T", "_", "u", "]", "]", "\n">>}
RedirectTexts ==
    {lead \o hash \o word \o tail :
        lead \in RedirectLeads, hash \in RedirectHashes,
        word \in RedirectWords, tail \in RedirectTails}
TalkFoo == <<"T", "a", "l", "k", ":", "F", "o", "o">>
RedirectCases ==
    {ParseCase(ti, t, 0) : ti \in {AlbertEinstein, TalkFoo}, t \in RedirectTexts}

\* Texts of category links, whole and broken, for extract_categories.
MaxCategoryTokens == 4
CategoryTokens ==
    {CategoryOpen, LinkOpen, LinkClose, <<"]">>, <<"|">>, <<"A">>, <<" ">>, <<"{", "{">>, <<"}", "}">>}
CategoryTexts == {Flatten(ts) : ts \in SeqsUpTo(CategoryTokens, MaxCategoryTokens)}
CategoryCases == {ParseCase(AlbertEinstein, t, 0) : t \in CategoryTexts}

\* Texts of category links in several spellings of the prefix.
MaxSpellingTokens == 3
SpellingTokens ==
    {CategoryOpen, <<"[", "[", "c", "a", "t", "e", "g", "o", "r", "y", ":">>,
     <<"[", "[", " ", "C", "a", "t", "e", "g", "o", "r", "y", ":">>, <<"A">>, <<"|">>,
     LinkClose}
SpellingTexts == {Flatten(ts) : ts \in SeqsUpTo(SpellingTokens, MaxSpellingTokens)}
SpellingCases == {ParseCase(AlbertEinstein, t, 0) : t \in SpellingTexts}

\* Texts of links inside the visible text of links.
MaxNestTokens == 3
NestTokens ==
    {<<"[", "[", "a", "|">>, PlainLink(<<"a">>), PipedLink(<<"a">>, <<"t">>), LinkOpen,
     LinkClose, <<"t">>}
NestTexts == {Flatten(ts) : ts \in SeqsUpTo(NestTokens, MaxNestTokens)}
NestCases == {CleanCase(t, None) : t \in NestTexts}

\* Texts of links, file links and brackets, for the file/image/category scan.
MaxFileTokens == 4
FileTokens ==
    {<<"[", "[", "F", "i", "l", "e", ":">>, <<"[", "[", " ", "i", "m", "a", "g", "e", ":">>, <<"C", "a", "t", "e", "g", "o", "r", "y", ":">>, PlainLink(<<"a">>), LinkOpen, LinkClose, <<"a">>}
FileTexts == {Flatten(ts) : ts \in SeqsUpTo(FileTokens, MaxFileTokens)}
FileCases == {CleanCase(t, None) : t \in FileTexts}

\* Texts of reference elements, self-closing reference tags and lines.
MaxRefTokens == 4
RefOpenTag == <<"<", "r", "e", "f", ">">>
RefSelfClosingTag == <<"<", "r", "e", "f", " ", "n", "/", ">">>
RefCloseTag == <<"<", "/", "r", "e", "f", ">">>
RefTokens == {RefOpenTag, RefSelfClosingTag, RefCloseTag, <<"k">>, <<"\n">>}
RefTexts == {Flatten(ts) : ts \in SeqsUpTo(RefTokens, MaxRefTokens)}
RefCases == {CleanCase(t, None) : t \in RefTexts}

\* Texts of equals signs, heading text and lines, for the header removal.
MaxHeaderTokens == 4
HeaderTokens == {<<"=", "=">>, <<"=">>, <<"a">>, <<" ">>, <<"\n">>}
HeaderTexts == {Flatten(ts) : ts \in SeqsUpTo(HeaderTokens, MaxHeaderTokens)}
HeaderCases == {CleanCase(t, None) : t \in HeaderTexts}

\* Texts of braces and brackets, matched or not, for the two scans.
MaxScanTokens == 4
ScanTokens == {<<"{", "{">>, <<"}", "}">>, <<"{", "|">>, LinkOpen, LinkClose,
               <<"F", "i", "l", "e", ":">>}
ScanTexts == {Flatten(ts) : ts \in SeqsUpTo(ScanTokens, MaxScanTokens)}
ScanCases == {CleanCase(t, None) : t \in ScanTexts}

\* Texts of blanks, line ends and letters, for the whitespace clean-up.
MaxSpaceTokens == 6
SpaceTokens == {<<" ">>, <<"\t">>, <<"\n">>, <<"\r">>, <<"a">>}
SpaceTexts == {Flatten(ts) : ts \in SeqsUpTo(SpaceTokens, MaxSpaceTokens)}
SpaceCases == {CleanCase(t, None) : t \in SpaceTexts}

\* The arguments and locals with which the call `c` begins: no local is set
\* yet.
CallStarts(c) ==
    /\ entry = c.entry
    /\ pc = IF c.entry = "parse" THEN "parse" ELSE "clean"
    /\ title = c.title
    /\ min_length = c.min_length
    /\ text = c.text
    /\ valid_titles = c.valid_titles
    /\ result = <<>>
    /\ pos = 1
    /\ stack = <<>>
    /\ clean_buffer = <<>>
    /\ depth = 0
    /\ content = <<>>
    /\ is_closed = FALSE
    /\ caps = None
    /\ replacement = None
    /\ categories = <<>>
    /\ outcome = Running

\* The state in which the call `c` begins, nothing else running.
Start(c) ==
    /\ CallStarts(c)
    /\ PruneNotRun
    /\ WorkersNotRun
    /\ ExtractNotRun
    /\ UpdateNotRun

InitStrip == \E c \in GoldenCases \cup BraceCases : Start(c)

Strip ==
    \/ StripOpenTemplate
    \/ StripOpenTable
    \/ StripClose
    \/ StripIgnore
    \/ StripKeep
    \/ StripEnd

FileLinkScan ==
    \/ FilesCopy
    \/ FilesOpen
    \/ InnerNested
    \/ InnerClose
    \/ InnerPush
    \/ InnerEnd
    \/ FilesDecide
    \/ FilesEnd

Next ==
    \/ CleanEnter
    \/ ParseSkipNamespace
    \/ ParseRedirect
    \/ ParseContent
    \/ Strip
    \/ RemoveRefs
    \/ RemoveSelfClosingRefs
    \/ RemoveComments
    \/ FileLinkScan
    \/ RewriteExternalLinks
    \/ RemoveBoldItalic
    \/ RemoveHeaders
    \/ RemoveBullets
    \/ RemoveHtmlTags
    \/ LinkPipeReplace
    \/ LinkPipeEnd
    \/ LinkReplace
    \/ LinkEnd
    \/ CollapseSpaces
    \/ CollapseNewlines
    \/ Trim
    \/ CleanReturn
    \/ CleanAgain
    \/ CleanFiltered
    \/ ParseFinish

\* The stripping scan on texts of braces.
SpecStrip == InitStrip /\ [][Next]_vars

InitLinks == \E c \in GoldenCases \cup LinkCases : Start(c)

SpecLinks == InitLinks /\ [][Next]_vars

InitTags == \E c \in GoldenCases \cup TagCases : Start(c)

SpecTags == InitTags /\ [][Next]_vars

\* Texts cleaned twice: the links in open mode and the tag texts.
TwiceCases == {TwiceCase(t) : t \in LinkTexts \cup TagTexts}

InitTwice == \E c \in GoldenCases \cup TwiceCases : Start(c)

SpecTwice == InitTwice /\ [][Next]_vars

InitParse == \E c \in GoldenCases \cup ParseCases : Start(c)

SpecParse == InitParse /\ [][Next]_vars

InitRedirect == \E c \in GoldenCases \cup RedirectCases : Start(c)

SpecRedirect == InitRedirect /\ [][Next]_vars

InitCategories == \E c \in GoldenCases \cup CategoryCases : Start(c)

SpecCategories == InitCategories /\ [][Next]_vars

InitSpellings == \E c \in GoldenCases \cup SpellingCases : Start(c)

SpecSpellings == InitSpellings /\ [][Next]_vars

InitNested == \E c \in GoldenCases \cup NestCases : Start(c)

SpecNested == InitNested /\ [][Next]_vars

\* Links cleaned in open mode, stored, and cleaned in pruning mode.
StoredCases == {StoredCase(t) : t \in LinkTexts}

InitStored == \E c \in GoldenCases \cup StoredCases : Start(c)

SpecStored == InitStored /\ [][Next]_vars

InitFiles == \E c \in GoldenCases \cup FileCases : Start(c)

SpecFiles == InitFiles /\ [][Next]_vars

InitRefs == \E c \in GoldenCases \cup RefCases : Start(c)

SpecRefs == InitRefs /\ [][Next]_vars

InitHeaders == \E c \in GoldenCases \cup HeaderCases : Start(c)

SpecHeaders == InitHeaders /\ [][Next]_vars

InitSpaces == \E c \in GoldenCases \cup SpaceCases : Start(c)

SpecSpaces == InitSpaces /\ [][Next]_vars

InitScans == \E c \in ScanCases : Start(c)

\* The call up to the end of its second scan.
NextScans ==
    \/ CleanEnter
    \/ Strip
    \/ RemoveRefs
    \/ RemoveSelfClosingRefs
    \/ RemoveComments
    \/ FileLinkScan

\* A call that has started keeps running: no step of the cleaner waits for
\* anything outside it.
SpecScans == InitScans /\ [][NextScans]_vars /\ WF_vars(NextScans)

-----------------------------------------------------------------------------
(* Link pruning, src/bin/download.rs 317-428 (prune_articles).             *)
(* A line of articles.jsonl is given by what serde makes of it: an empty   *)
(* line, a line that holds no object with a `title`, an object with a      *)
(* `title` that is no Article (a field is missing), or an Article.         *)

EmptyLine == [kind |-> "empty"]
GarbageLine == [kind |-> "garbage"]
TitleLine(t) == [kind |-> "title", title |-> t]
ArticleLine(t, c) == [kind |-> "article", title |-> t, content |-> c]

\* serde_json::from_str::<TitleOnly>(&line), download.rs 355.
TitleOnly(line) ==
    IF line.kind \in {"title", "article"} THEN Some(line.title) ELSE None

\* serde_json::from_str::<Article>(&line), download.rs 382.
ArticleOf(line) ==
    IF line.kind = "article" THEN Some([title |-> line.title, content |-> line.content])
    ELSE None

\* `.to_lowercase().replace('_', " ")`, download.rs 356 and 403.
PruneNormalize(t) == ReplaceChar(to_lowercase(t), "_", <<" ">>)

\* link_re, download.rs 398:  <a href="/wiki/([^"]+)">([^<]+)</a>
PruneLinkTargetEnd(s, i) == SkipNotIn(s, i + Len(AnchorHead), {"\""})
PruneLinkTextEnd(s, i) == SkipNotIn(s, PruneLinkTargetEnd(s, i) + Len(AnchorMid), {"<"})
PruneLinkMatchEnd(s, i) ==
    IF ~LitAt(s, i, AnchorHead) THEN 0
    ELSE LET a == i + Len(AnchorHead)
             b == PruneLinkTargetEnd(s, i)
             c == b + Len(AnchorMid)
             d == PruneLinkTextEnd(s, i)
         IN  IF b > a /\ LitAt(s, b, AnchorMid) /\ d > c /\ LitAt(s, d, AnchorTail)
             THEN d + Len(AnchorTail)
             ELSE 0

\* download.rs 400-412: `link_re.replace_all(&article.content, ..)` as a whole,
\* the closure keeping the link or leaving its text.
PruneContent(s, index) ==
    LET Decide(t, m, e) ==
            LET b == PruneLinkTargetEnd(t, m)
                d == PruneLinkTextEnd(t, m)
                target == SubSeq(t, m + Len(AnchorHead), b - 1)
                visible == SubSeq(t, b + Len(AnchorMid), d - 1)
            IN  IF PruneNormalize(target) \in index THEN SubSeq(t, m, e - 1) ELSE visible
    IN  ReplaceAll(s, PruneLinkMatchEnd, Decide)

\* What a step of prune_articles leaves alone outside it.
around_prune == <<parser_vars, worker_vars, extract_vars, update_vars>>

\* A first pass that ends after the first line, to compare PassOneDone with.
PassOneDoneAfterFirstLine(lines, n) == n > 1 \/ n > Len(lines)

\* download.rs 344: `for line in reader.lines()` has yielded every line.
PassOneDone(lines, n) == n > Len(lines)

\* download.rs 327-329: the articles file does not exist.
PruneMissingFile ==
    /\ prune_pc = "start"
    /\ articles_file = None
    /\ prune_pc' = "failed"
    /\ UNCHANGED <<around_prune, articles_file, temp_file, title_index, reader, article,
                   last_match, new_content, decisions>>

\* download.rs 335-337: the title index is created and the file opened.
PruneOpen ==
    /\ prune_pc = "start"
    /\ articles_file # None
    /\ title_index' = {}
    /\ reader' = 1
    /\ prune_pc' = "pass1"
    /\ UNCHANGED <<around_prune, articles_file, temp_file, article, last_match,
                   new_content, decisions>>

\* download.rs 344-362: one turn of the first loop.
CollectTitle ==
    /\ prune_pc = "pass1"
    /\ ~PassOneDone(Unwrap(articles_file), reader)
    /\ LET line == Unwrap(articles_file)[reader]
       IN  title_index' =
               IF line.kind # "empty" /\ TitleOnly(line) # None
               THEN title_index \cup {PruneNormalize(Unwrap(TitleOnly(line)))}
               ELSE title_index
    /\ reader' = reader + 1
    /\ UNCHANGED <<around_prune, prune_pc, articles_file, temp_file, article, last_match,
                   new_content, decisions>>

\* download.rs 363-370: the first loop is over, the file is opened again and
\* the temporary file created.
CollectEnd ==
    /\ prune_pc = "pass1"
    /\ PassOneDone(Unwrap(articles_file), reader)
    /\ prune_pc' = "pass2"
    /\ reader' = 1
    /\ temp_file' = Some(<<>>)
    /\ UNCHANGED <<around_prune, articles_file, title_index, article, last_match,
                   new_content, decisions>>

\* download.rs 345 and 379: `line?` returns the error of a failed read.
ReadError ==
    /\ prune_pc \in {"pass1", "pass2"}
    /\ reader <= Len(Unwrap(articles_file))
    /\ prune_pc' = "failed"
    /\ UNCHANGED <<around_prune, articles_file, temp_file, title_index, reader, article,
                   last_match, new_content, decisions>>

\* download.rs 380: `if line.is_empty() { continue; }` in the second loop.
SkipEmptyLine ==
    /\ prune_pc = "pass2"
    /\ reader <= Len(Unwrap(articles_file))
    /\ Unwrap(articles_file)[reader].kind = "empty"
    /\ reader' = reader + 1
    /\ UNCHANGED <<around_prune, prune_pc, articles_file, temp_file, title_index, article,
                   last_match, new_content, decisions>>

\* download.rs 382: `serde_json::from_str(&line)?` returns the error.
ParseError ==
    /\ prune_pc = "pass2"
    /\ reader <= Len(Unwrap(articles_file))
    /\ Unwrap(articles_file)[reader].kind # "empty"
    /\ ArticleOf(Unwrap(articles_file)[reader]) = None
    /\ prune_pc' = "failed"
    /\ UNCHANGED <<around_prune, articles_file, temp_file, title_index, reader, article,
                   last_match, new_content, decisions>>

\* download.rs 382-400: the line is an article, replace_all starts on its content.
PruneArticle ==
    /\ prune_pc = "pass2"
    /\ reader <= Len(Unwrap(articles_file))
    /\ Unwrap(articles_file)[reader].kind # "empty"
    /\ ArticleOf(Unwrap(articles_file)[reader]) # None
    /\ article' = ArticleOf(Unwrap(articles_file)[reader])
    /\ last_match' = 1
    /\ new_content' = <<>>
    /\ prune_pc' = "links"
    /\ UNCHANGED <<around_prune, articles_file, temp_file, title_index, reader, decisions>>

\* download.rs 400-412: the closure runs on the next link of the content and
\* keeps the link or leaves its text.
DecideLink ==
    /\ prune_pc = "links"
    /\ LET s == Unwrap(article).content
           m == NextMatch(s, last_match, PruneLinkMatchEnd)
       IN  /\ m > 0
           /\ LET e == PruneLinkMatchEnd(s, m)
                  b == PruneLinkTargetEnd(s, m)
                  d == PruneLinkTextEnd(s, m)
                  target == SubSeq(s, m + Len(AnchorHead), b - 1)
                  visible == SubSeq(s, b + Len(AnchorMid), d - 1)
                  kept == PruneNormalize(target) \in title_index
              IN  /\ new_content' = new_content \o SubSeq(s, last_match, m - 1)
                                      \o (IF kept THEN SubSeq(s, m, e - 1) ELSE visible)
                  /\ last_match' = e
                  /\ decisions' = Append(decisions, [title |-> Unwrap(article).title,
                                                     target |-> target, kept |-> kept])
    /\ UNCHANGED <<around_prune, prune_pc, articles_file, temp_file, title_index, reader,
                   article>>

\* download.rs 412-418: no link is left, the article is written with its new
\* content.
WriteArticle ==
    /\ prune_pc = "links"
    /\ LET s == Unwrap(article).content
       IN  /\ NextMatch(s, last_match, PruneLinkMatchEnd) = 0
           /\ temp_file' = Some(Append(Unwrap(temp_file),
                                ArticleLine(Unwrap(article).title,
                                            new_content \o From(s, last_match))))
    /\ article' = None
    /\ last_match' = 1
    /\ new_content' = <<>>
    /\ reader' = reader + 1
    /\ prune_pc' = "pass2"
    /\ UNCHANGED <<around_prune, articles_file, title_index, decisions>>

\* download.rs 420-423: the second loop is over, the temporary file takes the
\* place of articles.jsonl.
ReplaceFile ==
    /\ prune_pc = "pass2"
    /\ reader > Len(Unwrap(articles_file))
    /\ articles_file' = temp_file
    /\ temp_file' = None
    /\ prune_pc' = "done"
    /\ UNCHANGED <<around_prune, title_index, reader, article, last_match, new_content,
                   decisions>>

\* No call of the parser is under way: prune_articles works on the files alone.
ParserNotRun ==
    /\ pc = "none"
    /\ entry = "prune"
    /\ title = <<>>
    /\ min_length = DefaultMinLength
    /\ text = <<>>
    /\ valid_titles = None
    /\ result = <<>>
    /\ pos = 1
    /\ stack = <<>>
    /\ clean_buffer = <<>>
    /\ depth = 0
    /\ content = <<>>
    /\ is_closed = FALSE
    /\ caps = None
    /\ replacement = None
    /\ categories = <<>>
    /\ outcome = NoOutcome

\* Articles files: titles with an underscore and a capital, contents with the
\* anchors the cleaner writes (one with an encoded space), with a link to a
\* page that no line holds, and without a link.
MaxLines == 2
TitleAB == <<"A", "_", "b">>
TitleC == <<"c">>
TitleD == <<"d">>
LinkToAB == AnchorHead \o TitleAB \o AnchorMid \o <<"t">> \o AnchorTail
LinkToC == Anchor(TitleC, <<"u">>)
LinkToD == Anchor(TitleD, <<"v">>)
LinkEncoded == Anchor(<<"A", " ", "b">>, <<"w">>)
PruneLines ==
    { EmptyLine, GarbageLine, TitleLine(TitleD),
      ArticleLine(TitleAB, LinkToC \o <<"x">> \o LinkToD),
      ArticleLine(TitleC, LinkToAB \o LinkEncoded),
      ArticleLine(TitleC, <<"x">>) }
PruneFiles == {None} \cup {Some(ls) : ls \in SeqsUpTo(PruneLines, MaxLines)}

InitPrune ==
    /\ ParserNotRun
    /\ WorkersNotRun
    /\ ExtractNotRun
    /\ UpdateNotRun
    /\ prune_pc = "start"
    /\ articles_file \in PruneFiles
    /\ temp_file = None
    /\ title_index = {}
    /\ reader = 1
    /\ article = None
    /\ last_match = 1
    /\ new_content = <<>>
    /\ decisions = <<>>

NextPrune ==
    \/ PruneMissingFile
    \/ PruneOpen
    \/ CollectTitle
    \/ CollectEnd
    \/ ReadError
    \/ SkipEmptyLine
    \/ ParseError
    \/ PruneArticle
    \/ DecideLink
    \/ WriteArticle
    \/ ReplaceFile

\* One run of prune_articles.
SpecPrune == InitPrune /\ [][NextPrune]_vars

-----------------------------------------------------------------------------
(* Workers that call the parser side by side.                              *)
(*                                                                         *)
(* WikiParser's methods take `&self` and a page; everything they write is  *)
(* declared with `let` inside the call (parser.rs 119-284, 288-322), and   *)
(* the patterns are `static Lazy<Regex>` (7-18) that no call writes. A     *)
(* thread is the locals of its call; the scheduler chooses between any two *)
(* steps which thread runs next. To have what a call returns alone, each   *)
(* worker's call first runs from start to end with no other in between.    *)

Workers == {"w1", "w2"}

\* The arguments and locals of the call that is running.
Locals ==
    [pc |-> pc, entry |-> entry, title |-> title, min_length |-> min_length,
     text |-> text, valid_titles |-> valid_titles, result |-> result, pos |-> pos,
     stack |-> stack, clean_buffer |-> clean_buffer, depth |-> depth,
     content |-> content, is_closed |-> is_closed, caps |-> caps,
     replacement |-> replacement, categories |-> categories, outcome |-> outcome]

\* The arguments and locals with which the call `c` begins, as a record.
Fresh(c) ==
    [pc |-> IF c.entry = "parse" THEN "parse" ELSE "clean", entry |-> c.entry,
     title |-> c.title, min_length |-> c.min_length, text |-> c.text,
     valid_titles |-> c.valid_titles, result |-> <<>>, pos |-> 1, stack |-> <<>>,
     clean_buffer |-> <<>>, depth |-> 0, content |-> <<>>, is_closed |-> FALSE,
     caps |-> None, replacement |-> None, categories |-> <<>>, outcome |-> Running]

\* A thread that resumes with a buffer the threads share, to compare Resume
\* with.
ResumeSharingBuffer(l) ==
    /\ pc' = l.pc
    /\ entry' = l.entry
    /\ title' = l.title
    /\ min_length' = l.min_length
    /\ text' = l.text
    /\ valid_titles' = l.valid_titles
    /\ result' = l.result
    /\ pos' = l.pos
    /\ stack' = l.stack
    /\ clean_buffer' = clean_buffer
    /\ depth' = l.depth
    /\ content' = l.content
    /\ is_closed' = l.is_closed
    /\ caps' = l.caps
    /\ replacement' = l.replacement
    /\ categories' = l.categories
    /\ outcome' = l.outcome

\* The thread with the locals `l` is the one that runs next: its call goes
\* on with its own arguments and locals.
Resume(l) ==
    /\ pc' = l.pc
    /\ entry' = l.entry
    /\ title' = l.title
    /\ min_length' = l.min_length
    /\ text' = l.text
    /\ valid_titles' = l.valid_titles
    /\ result' = l.result
    /\ pos' = l.pos
    /\ stack' = l.stack
    /\ clean_buffer' = l.clean_buffer
    /\ depth' = l.depth
    /\ content' = l.content
    /\ is_closed' = l.is_closed
    /\ caps' = l.caps
    /\ replacement' = l.replacement
    /\ categories' = l.categories
    /\ outcome' = l.outcome

\* The running worker is parked with the locals `l` and worker w runs.
Dispatch(w, l) ==
    /\ running' = w
    /\ Resume(parked[w])
    /\ parked' = [v \in (DOMAIN parked \ {w}) \cup {running} |->
                     IF v = running THEN l ELSE parked[v]]

\* Every worker's call has run alone.
Together == DOMAIN alone = Workers

\* A call that ran alone has returned: what it returned is kept, and the
\* next worker's call runs alone; after the last one, all calls start over
\* and run side by side.
ReturnAlone ==
    /\ ~Together
    /\ pc = "done"
    /\ alone' = [v \in DOMAIN alone \cup {running} |->
                    IF v = running THEN outcome ELSE alone[v]]
    /\ \E w \in DOMAIN parked :
           /\ (DOMAIN alone' # Workers) => (w \notin DOMAIN alone')
           /\ Dispatch(w, Fresh(Locals))
    /\ UNCHANGED <<prune_vars, extract_vars, update_vars>>

\* The scheduler takes the running thread off between two of its steps and
\* lets another thread run.
Switch ==
    /\ Together
    /\ \E w \in DOMAIN parked :
           /\ parked[w].pc # "done"
           /\ Dispatch(w, Locals)
    /\ UNCHANGED <<alone, prune_vars, extract_vars, update_vars>>

\* The pages the workers are given.
WorkerCases ==
    {CleanCase(t, None) : t \in {NestedTemplate, TwoLinks, ScriptLink, QuoteLink, TableAndFiles}}
    \cup {CleanCase(t, Some(KnownTitles)) : t \in {MissingPage, ExistingPage}}
    \cup {ParseCase(AlbertEinstein, t, 0) : t \in {TwoCategories, RedirectStates}}
    \cup {ParseCase(ti, NormalText, 0) : ti \in {WikipediaAbout, CategoryScience}}

InitWorkers ==
    \E c1 \in WorkerCases :
      \E c2 \in WorkerCases \ {c1} :
        /\ CallStarts(c1)
        /\ running = "w1"
        /\ parked = [w \in {"w2"} |-> Fresh(c2)]
        /\ alone = <<>>
        /\ PruneNotRun
        /\ ExtractNotRun
        /\ UpdateNotRun

NextWorkers ==
    \/ CleanEnter
    \/ ParseSkipNamespace
    \/ ParseRedirect
    \/ ParseContent
    \/ Strip
    \/ RemoveRefs
    \/ RemoveSelfClosingRefs
    \/ RemoveComments
    \/ FileLinkScan
    \/ RewriteExternalLinks
    \/ RemoveBoldItalic
    \/ RemoveHeaders
    \/ RemoveBullets
    \/ RemoveHtmlTags
    \/ LinkPipeReplace
    \/ LinkPipeEnd
    \/ LinkReplace
    \/ LinkEnd
    \/ CollapseSpaces
    \/ CollapseNewlines
    \/ Trim
    \/ CleanReturn
    \/ ParseFinish
    \/ ReturnAlone
    \/ Switch

\* Two calls of the parser on different pages, alone and then side by side.
SpecWorkers == InitWorkers /\ [][NextWorkers]_vars

-----------------------------------------------------------------------------
(* WikiDownloader::extract, downloader.rs 250-370: the loop over the pages *)
(* of the dump. A page is what the XML reader has put into `current_title` *)
(* and `current_text` when it yields `</text>`; the steps of parse_article *)
(* on a page are the steps of the parser above.                            *)

\* downloader.rs 276
MAX_ARTICLE_SIZE == 10000000

\* downloader.rs 291: `.take(255)`
SanitizedTitleLimit == 255

\* `char::is_control` on the characters of the model's texts.
is_control(c) == c \in {"\n", "\t"}

\* downloader.rs 288-292
sanitized_title(current_title) ==
    LET kept == SelectSeq(current_title, LAMBDA c : ~is_control(c))
    IN  SubSeq(kept, 1, IF Len(kept) < SanitizedTitleLimit THEN Len(kept) ELSE SanitizedTitleLimit)

\* A page of the dump; `len` is `current_text.len()`.
Page(ti, t) == [title |-> ti, text |-> t, len |-> ByteLen(t)]

\* A page of more than MAX_ARTICLE_SIZE bytes, given by its length alone: no
\* step reads its text.
OversizePage == [title |-> AlbertEinstein, text |-> <<>>, len |-> MAX_ARTICLE_SIZE + 1]

\* `stats.articles_extracted += 1`
Extracted(st) == [st EXCEPT !.articles_extracted = @ + 1]

\* `stats.articles_skipped += 1`
Skipped(st) == [st EXCEPT !.articles_skipped = @ + 1]

\* A redirect counted as a redirect only, to compare Redirected with.
RedirectedOnly(st) == [st EXCEPT !.redirects = @ + 1]

\* downloader.rs 335-336
Redirected(st) == [st EXCEPT !.redirects = @ + 1, !.articles_skipped = @ + 1]

\* What a step of extract leaves alone outside it.
around_extract == <<prune_vars, worker_vars, update_vars>>

\* downloader.rs 343-345 and 365-366: the page is done, the reader goes on.
NextPage ==
    /\ page_no' = page_no + 1
    /\ extract_pc' = "read"

\* downloader.rs 362: the reader yields Eof, the loop ends.
ExtractEof ==
    /\ extract_pc = "read"
    /\ page_no > Len(dump)
    /\ extract_pc' = "ended"
    /\ UNCHANGED <<parser_vars, around_extract, dump, page_no, stats, writer, max_articles>>

\* downloader.rs 276-284: a page above the size limit is skipped.
ExtractSkipOversize ==
    /\ extract_pc = "read"
    /\ page_no <= Len(dump)
    /\ dump[page_no].len > MAX_ARTICLE_SIZE
    /\ stats' = Skipped(stats)
    /\ NextPage
    /\ UNCHANGED <<parser_vars, around_extract, dump, writer, max_articles>>

\* downloader.rs 294-300: a page whose sanitized title is empty is skipped.
ExtractSkipNoTitle ==
    /\ extract_pc = "read"
    /\ page_no <= Len(dump)
    /\ dump[page_no].len <= MAX_ARTICLE_SIZE
    /\ sanitized_title(dump[page_no].title) = <<>>
    /\ stats' = Skipped(stats)
    /\ NextPage
    /\ UNCHANGED <<parser_vars, around_extract, dump, writer, max_articles>>

\* downloader.rs 303: `self.parser.parse_article(&sanitized_title,
\* &current_text)` is called; the parser keeps the min_length it was built
\* with (downloader.rs 37).
ExtractParse ==
    /\ extract_pc = "read"
    /\ page_no <= Len(dump)
    /\ dump[page_no].len <= MAX_ARTICLE_SIZE
    /\ sanitized_title(dump[page_no].title) # <<>>
    /\ Resume(Fresh(ParseCase(sanitized_title(dump[page_no].title), dump[page_no].text,
                              min_length)))
    /\ extract_pc' = "parsing"
    /\ UNCHANGED <<around_extract, dump, page_no, stats, writer, max_articles>>

\* downloader.rs 304-333: an Article is written as one line and counted; at
\* the limit of max_articles the loop ends.
ExtractArticle ==
    /\ extract_pc = "parsing"
    /\ pc = "done"
    /\ outcome.kind = "Article"
    /\ writer' = Append(writer, [title |-> outcome.title, content |-> outcome.content,
                                 categories |-> outcome.categories])
    /\ stats' = Extracted(stats)
    /\ page_no' = page_no + 1
    /\ extract_pc' = IF max_articles > 0 /\ stats'.articles_extracted >= max_articles
                     THEN "ended"
                     ELSE "read"
    /\ UNCHANGED <<parser_vars, around_extract, dump, max_articles>>

\* downloader.rs 316-317: `serde_json::to_string(&article)?` or `writeln!(..)?`
\* fails, extract returns the error.
ExtractWriteError ==
    /\ extract_pc = "parsing"
    /\ pc = "done"
    /\ outcome.kind = "Article"
    /\ extract_pc' = "failed"
    /\ UNCHANGED <<parser_vars, around_extract, dump, page_no, stats, writer, max_articles>>

\* downloader.rs 334-337
ExtractRedirect ==
    /\ extract_pc = "parsing"
    /\ pc = "done"
    /\ outcome.kind = "Redirect"
    /\ stats' = Redirected(stats)
    /\ NextPage
    /\ UNCHANGED <<parser_vars, around_extract, dump, writer, max_articles>>

\* downloader.rs 338-340
ExtractExcluded ==
    /\ extract_pc = "parsing"
    /\ pc = "done"
    /\ outcome.kind = "None"
    /\ stats' = Skipped(stats)
    /\ NextPage
    /\ UNCHANGED <<parser_vars, around_extract, dump, writer, max_articles>>

\* Dumps: short pages that are an article, a redirect, a redirect without a
\* target, a page of an excluded namespace, a page whose title is a control
\* character, and an oversize page; and one dump of the pages that take the
\* cleaner through all its steps.
MaxPages == 2

ShortPages ==
    { Page(AlbertEinstein, NormalText), Page(AlbertEinstein, RedirectUpper),
      Page(AlbertEinstein, RedirectNoTarget), Page(WikipediaAbout, NormalText),
      Page(<<"\n">>, NormalText), OversizePage }

LongDump ==
    <<Page(AlbertEinstein, NestedTemplate), Page(AlbertEinstein, TwoLinks),
      Page(AlbertEinstein, TableAndFiles), Page(AlbertEinstein, TwoCategories)>>

Dumps == {LongDump} \cup SeqsUpTo(ShortPages, MaxPages)

InitExtract ==
    /\ pc = "none"
    /\ entry = "parse"
    /\ title = <<>>
    /\ min_length \in {0, DefaultMinLength}
    /\ text = <<>>
    /\ valid_titles = None
    /\ result = <<>>
    /\ pos = 1
    /\ stack = <<>>
    /\ clean_buffer = <<>>
    /\ depth = 0
    /\ content = <<>>
    /\ is_closed = FALSE
    /\ caps = None
    /\ replacement = None
    /\ categories = <<>>
    /\ outcome = NoOutcome
    /\ extract_pc = "read"
    /\ dump \in Dumps
    /\ page_no = 1
    /\ stats = [articles_extracted |-> 0, articles_skipped |-> 0, redirects |-> 0]
    /\ writer = <<>>
    /\ max_articles \in {0, 1}
    /\ PruneNotRun
    /\ WorkersNotRun
    /\ UpdateNotRun

NextExtract ==
    \/ ExtractEof
    \/ ExtractSkipOversize
    \/ ExtractSkipNoTitle
    \/ ExtractParse
    \/ ParseSkipNamespace
    \/ ParseRedirect
    \/ ParseContent
    \/ Strip
    \/ RemoveRefs
    \/ RemoveSelfClosingRefs
    \/ RemoveComments
    \/ FileLinkScan
    \/ RewriteExternalLinks
    \/ RemoveBoldItalic
    \/ RemoveHeaders
    \/ RemoveBullets
    \/ RemoveHtmlTags
    \/ LinkPipeReplace
    \/ LinkPipeEnd
    \/ LinkReplace
    \/ LinkEnd
    \/ CollapseSpaces
    \/ CollapseNewlines
    \/ Trim
    \/ ParseFinish
    \/ ExtractArticle
    \/ ExtractWriteError
    \/ ExtractRedirect
    \/ ExtractExcluded

\* One run of extract over a dump.
SpecExtract == InitExtract /\ [][NextExtract]_vars

-----------------------------------------------------------------------------
(* UpdateManager, update_manager.rs: the status behind a tokio RwLock and  *)
(* the async methods check_for_updates, perform_update (with               *)
(* perform_full_update and save_status) and retry_failed_update, called by *)
(* tasks that share the manager.                                           *)
(*                                                                         *)
(* A task runs from one `.await` on the lock to the next without another   *)
(* task in between only where the code holds a guard; a block that takes   *)
(* a guard, uses it and drops it with no `.await` inside is one step. The  *)
(* only guard held from one step to the next is the read guard of          *)
(* check_for_updates (line 84), so `lock` is the set of tasks that hold a  *)
(* read guard: `write().await` goes on when no task does, `read().await`   *)
(* always.                                                                 *)

\* update_manager.rs 88: `days_since_update >= 7`
UpdateIntervalDays == 7

\* The tasks that share the manager.
Tasks == {"t1", "t2"}

\* update_manager.rs 372-384: UpdateStatus::default(), with the last success
\* a loaded status file may hold, in days before now.
DefaultStatus(last_success) ==
    [last_check |-> None, last_update |-> None, last_success |-> last_success,
     last_failure |-> None, current_status |-> "Idle", progress |-> None,
     error_message |-> None]

\* update_manager.rs 111: `Status::Downloading | Status::Extracting |
\* Status::Indexing`
InProgress(s) == s.current_status \in {"Downloading", "Extracting", "Indexing"}

\* A task that is in no call.
NoCall ==
    [method |-> "none", pc |-> "done", began |-> FALSE, needs_update |-> None,
     result |-> None, returned |-> None]

\* The task has just called the method `m`.
Called(m) ==
    [method |-> m,
     pc |-> CASE m = "check_for_updates" -> "set_checking"
              [] m = "perform_update" -> "start"
              [] m = "retry_failed_update" -> "retry",
     began |-> FALSE, needs_update |-> None, result |-> None, returned |-> None]

\* Result<T>
Ok(v) == [ok |-> TRUE, value |-> v]
Err(e) == [ok |-> FALSE, value |-> e]

\* The call of task t goes on at `to`.
Goes(t, to) == calls' = [calls EXCEPT ![t].pc = to]

\* The call of task t returns `v`; the guard it holds is dropped.
Returns(t, v) ==
    /\ calls' = [calls EXCEPT ![t].pc = "done", ![t].returned = Some(v)]
    /\ lock' = lock \ {t}

\* What a step of the update manager leaves alone outside it.
around_update == <<parser_vars, prune_vars, worker_vars, extract_vars>>

\* A task calls one of the manager's methods.
Invoke(t) ==
    /\ calls[t].pc = "done"
    /\ \E m \in {"check_for_updates", "perform_update", "retry_failed_update"} :
           calls' = [calls EXCEPT ![t] = Called(m)]
    /\ UNCHANGED <<around_update, status, lock, status_file, config>>

\* update_manager.rs 84-91: check_for_updates takes the read guard `status`,
\* which lives to the end of the function, and computes needs_update.
CheckRead(t) ==
    /\ calls[t].pc = "read"
    /\ lock' = lock \cup {t}
    /\ calls' = [calls EXCEPT
                   ![t].pc = "set_idle",
                   ![t].needs_update =
                       Some(IF status.last_success # None
                            THEN Unwrap(status.last_success) >= UpdateIntervalDays
                            ELSE TRUE)]
    /\ UNCHANGED <<around_update, status, status_file, config>>

\* update_manager.rs 267-271: retry_failed_update when the status is not
\* Failed.
RetryNotFailed(t) ==
    /\ calls[t].pc = "retry"
    /\ status.current_status # "Failed"
    /\ Returns(t, Err("No failed update to retry"))
    /\ UNCHANGED <<around_update, status, status_file, config>>

\* update_manager.rs 267-274: the status is Failed; the guard is dropped and
\* perform_update is called.
RetryFailed(t) ==
    /\ calls[t].pc = "retry"
    /\ status.current_status = "Failed"
    /\ Goes(t, "start")
    /\ UNCHANGED <<around_update, status, lock, status_file, config>>

\* update_manager.rs 108-116: the status is in progress, perform_update bails.
PerformBusy(t) ==
    /\ calls[t].pc = "start"
    /\ InProgress(status)
    /\ Returns(t, Err("Update already in progress"))
    /\ UNCHANGED <<around_update, status, status_file, config>>

\* update_manager.rs 108-116: the status is not in progress; the read guard
\* is dropped at the end of the block.
PerformFree(t) ==
    /\ calls[t].pc = "start"
    /\ ~InProgress(status)
    /\ Goes(t, "window")
    /\ UNCHANGED <<around_update, status, lock, status_file, config>>

\* update_manager.rs 119-123: now is outside the configured window.
PerformOutsideWindow(t) ==
    /\ calls[t].pc = "window"
    /\ config.update_window
    /\ Returns(t, Err("Current time is outside the configured update window"))
    /\ UNCHANGED <<around_update, status, status_file, config>>

\* update_manager.rs 119-123: no window is configured, or now is within it.
PerformInWindow(t) ==
    /\ calls[t].pc = "window"
    /\ Goes(t, "set_downloading")
    /\ UNCHANGED <<around_update, status, lock, status_file, config>>

\* The blocks that take the write guard, change the status and drop the
\* guard: update_manager.rs 76-80, 94-97, 126-136, 213-222, 235-245, 249-259.
WritePoints ==
    {"set_checking", "set_idle", "set_downloading", "set_progress", "set_extracting",
     "set_indexing"}

\* What the block at `at` writes.
Written(at, s) ==
    CASE at = "set_checking" ->
             [s EXCEPT !.last_check = Some("now"), !.current_status = "Checking"]
      [] at = "set_idle" -> [s EXCEPT !.current_status = "Idle"]
      [] at = "set_downloading" ->
             [s EXCEPT !.current_status = "Downloading", !.progress = Some("Initializing")]
      [] at = "set_progress" -> [s EXCEPT !.progress = Some("Downloading Wikipedia dump")]
      [] at = "set_extracting" ->
             [s EXCEPT !.current_status = "Extracting", !.progress = Some("Extracting articles")]
      [] at = "set_indexing" ->
             [s EXCEPT !.current_status = "Indexing", !.progress = Some("Building search index")]

\* Where the call goes on after the block at `at`: check_for_updates takes
\* its read guard, the others call save_status.
AfterWrite(at) ==
    CASE at = "set_checking" -> "read"
      [] at = "set_idle" -> "save_idle"
      [] at = "set_downloading" -> "save_downloading"
      [] at = "set_progress" -> "save_progress"
      [] at = "set_extracting" -> "save_extracting"
      [] at = "set_indexing" -> "save_indexing"

\* `self.status.write().await` goes on when no read guard is held, the
\* task's own included.
CanWrite == lock = {}

WriteBlock(t) ==
    /\ calls[t].pc \in WritePoints
    /\ CanWrite
    /\ status' = Written(calls[t].pc, status)
    /\ calls' = [calls EXCEPT
                   ![t].pc = AfterWrite(calls[t].pc),
                   ![t].began = @ \/ calls[t].pc = "set_downloading"]
    /\ UNCHANGED <<around_update, lock, status_file, config>>

\* The calls `self.save_status().await?`: update_manager.rs 99, 137, 223,
\* 246, 260, 180.
SavePoints ==
    {"save_idle", "save_downloading", "save_progress", "save_extracting", "save_indexing",
     "save_final"}

\* The saves of perform_full_update, whose error is perform_update's `result`.
FullSavePoints == {"save_progress", "save_extracting", "save_indexing"}

\* update_manager.rs 295-299 and its callers: the status is saved and the
\* call goes on; after the last save check_for_updates and perform_update
\* return, after the save of Indexing perform_full_update returns Ok.
SaveStatus(t) ==
    /\ calls[t].pc \in SavePoints
    /\ status_file' = Some(status)
    /\ LET c == calls[t]
       IN  calls' = [calls EXCEPT ![t] =
               CASE c.pc = "save_idle" ->
                        [c EXCEPT !.pc = "done", !.returned = Some(Ok(Unwrap(c.needs_update)))]
                 [] c.pc = "save_downloading" -> [c EXCEPT !.pc = "mode"]
                 [] c.pc = "save_progress" -> [c EXCEPT !.pc = "run"]
                 [] c.pc = "save_extracting" -> [c EXCEPT !.pc = "set_indexing"]
                 [] c.pc = "save_indexing" -> [c EXCEPT !.pc = "final", !.result = Some(Ok("()"))]
                 [] c.pc = "save_final" -> [c EXCEPT !.pc = "done", !.returned = c.result]]
    /\ lock' = IF calls[t].pc \in {"save_idle", "save_final"} THEN lock \ {t} ELSE lock
    /\ UNCHANGED <<around_update, status, config>>

\* `status.save(&status_path)` fails: `?` returns the error from
\* check_for_updates and perform_update, and from perform_full_update to
\* perform_update's `result`.
SaveStatusFails(t) ==
    /\ calls[t].pc \in SavePoints
    /\ LET c == calls[t]
       IN  calls' = [calls EXCEPT ![t] =
               IF c.pc \in FullSavePoints
               THEN [c EXCEPT !.pc = "final", !.result = Some(Err("save failed"))]
               ELSE [c EXCEPT !.pc = "done", !.returned = Some(Err("save failed"))]]
    /\ lock' = IF calls[t].pc \in FullSavePoints THEN lock ELSE lock \ {t}
    /\ UNCHANGED <<around_update, status, status_file, config>>

\* update_manager.rs 141
PerformFull(t) ==
    /\ calls[t].pc = "mode"
    /\ config.mode = "Full"
    /\ Goes(t, "full_exe")
    /\ UNCHANGED <<around_update, status, lock, status_file, config>>

\* update_manager.rs 142-144: `anyhow::bail!` returns from perform_update.
PerformIncremental(t) ==
    /\ calls[t].pc = "mode"
    /\ config.mode = "Incremental"
    /\ Returns(t, Err("Incremental updates not yet implemented"))
    /\ UNCHANGED <<around_update, status, status_file, config>>

\* update_manager.rs 194-203: the executable is not found.
FullNoExecutable(t) ==
    /\ calls[t].pc = "full_exe"
    /\ calls' = [calls EXCEPT ![t].pc = "final",
                              ![t].result = Some(Err("Could not find rustipedia-download"))]
    /\ UNCHANGED <<around_update, status, lock, status_file, config>>

\* update_manager.rs 194-210: the command is built.
FullExecutable(t) ==
    /\ calls[t].pc = "full_exe"
    /\ Goes(t, "set_progress")
    /\ UNCHANGED <<around_update, status, lock, status_file, config>>

\* update_manager.rs 227-233: the command cannot be run or fails.
FullCommandFails(t) ==
    /\ calls[t].pc = "run"
    /\ calls' = [calls EXCEPT ![t].pc = "final", ![t].result = Some(Err("Download failed"))]
    /\ UNCHANGED <<around_update, status, lock, status_file, config>>

\* update_manager.rs 227-233: the command succeeds.
FullCommandSucceeds(t) ==
    /\ calls[t].pc = "run"
    /\ Goes(t, "set_extracting")
    /\ UNCHANGED <<around_update, status, lock, status_file, config>>

\* update_manager.rs 150-175: what the final block writes before
\* `status.progress = None`.
FinalStatus(r, s) ==
    IF r.ok
    THEN [s EXCEPT !.current_status = "Success", !.last_success = Some(0),
                   !.last_update = Some("now"), !.error_message = None]
    ELSE [s EXCEPT !.current_status = "Failed", !.last_failure = Some("now"),
                   !.error_message = Some(r.value)]

\* update_manager.rs 148-178: the final status is written and the progress
\* cleared.
PerformFinal(t) ==
    /\ calls[t].pc = "final"
    /\ CanWrite
    /\ status' = [FinalStatus(Unwrap(calls[t].result), status) EXCEPT !.progress = None]
    /\ Goes(t, "save_final")
    /\ UNCHANGED <<around_update, lock, status_file, config>>

\* update_manager.rs 160-162 and 172-174: `self.log_update_result(..).await?`
\* fails and returns from perform_update inside the block.
PerformLogFails(t) ==
    /\ calls[t].pc = "final"
    /\ CanWrite
    /\ IF Unwrap(calls[t].result).ok
       THEN config.notifications.on_success
       ELSE config.notifications.on_failure
    /\ status' = FinalStatus(Unwrap(calls[t].result), status)
    /\ Returns(t, Err("log failed"))
    /\ UNCHANGED <<around_update, status_file, config>>

\* The step of task t.
TaskStep(t) ==
    \/ Invoke(t)
    \/ WriteBlock(t)
    \/ CheckRead(t)
    \/ SaveStatus(t)
    \/ SaveStatusFails(t)
    \/ RetryNotFailed(t)
    \/ RetryFailed(t)
    \/ PerformBusy(t)
    \/ PerformFree(t)
    \/ PerformOutsideWindow(t)
    \/ PerformInWindow(t)
    \/ PerformFull(t)
    \/ PerformIncremental(t)
    \/ FullNoExecutable(t)
    \/ FullExecutable(t)
    \/ FullCommandFails(t)
    \/ FullCommandSucceeds(t)
    \/ PerformFinal(t)
    \/ PerformLogFails(t)

\* Configurations: the mode, whether an update window is set, whether the
\* results are logged.
Configs ==
    {[mode |-> m, update_window |-> w, notifications |-> [on_success |-> n, on_failure |-> n]] :
        m \in {"Full", "Incremental"}, w \in BOOLEAN, n \in BOOLEAN}

\* The last success a status file may hold, in days before now.
LastSuccesses == {None, Some(UpdateIntervalDays - 1), Some(UpdateIntervalDays)}

\* update_manager.rs 23-26 and 29-48: the manager as UpdateManager::new or
\* UpdateManager::load leaves it, no task in a call.
ManagerBuilt ==
    /\ ParserNotRun
    /\ PruneNotRun
    /\ WorkersNotRun
    /\ ExtractNotRun
    /\ lock = {}
    /\ calls = [t \in Tasks |-> NoCall]
    /\ status_file = None
    /\ config \in Configs

InitUpdate ==
    /\ ManagerBuilt
    /\ status = DefaultStatus(None)

NextUpdate == \E t \in Tasks : TaskStep(t)

\* Two tasks that call the manager's methods side by side.
SpecUpdate == InitUpdate /\ [][NextUpdate]_vars

InitUpdateAlone ==
    /\ ManagerBuilt
    /\ status \in {DefaultStatus(l) : l \in LastSuccesses}

NextUpdateAlone == TaskStep("t1")

\* One task that calls the manager's methods one after the other; a call
\* that can take a step takes one.
SpecUpdateAlone == InitUpdateAlone /\ [][NextUpdateAlone]_vars /\ WF_vars(NextUpdateAlone)

-----------------------------------------------------------------------------
(* The claims about the template/table stripping scan.                     *)
(*                                                                         *)
(* How a text reads, by descent into its spans instead of a stack: an      *)
(* opener is `{{` or `{|` wherever it stands, and the span it opens ends   *)
(* with the first closer of its own kind that no nested span has taken.    *)

IsOpenerAt(t, i) == LitAt(t, i, <<"{", "{">>) \/ LitAt(t, i, <<"{", "|">>)

CloserOfOpenerAt(t, i) == IF LitAt(t, i, <<"{", "{">>) THEN <<"}", "}">> ELSE <<"|", "}">>

IsCloserAt(t, i) == LitAt(t, i, <<"}", "}">>) \/ LitAt(t, i, <<"|", "}">>)

\* The least index from i on where P holds, 0 when there is none.
FirstFrom(t, i, P(_, _)) ==
    LET hits == {j \in i..Len(t) : P(t, j)}
    IN  IF hits = {} THEN 0 ELSE CHOOSE j \in hits : \A k \in hits : j <= k

\* The index just past the closer `close` of the span whose content starts at
\* i; 0 when the span is not closed before the end of the text.
RECURSIVE SpanEnd(_, _, _)
SpanEnd(t, i, close) ==
    LET Stop(u, j) == IsOpenerAt(u, j) \/ LitAt(u, j, close)
        j == FirstFrom(t, i, Stop)
    IN  IF j = 0 THEN 0
        ELSE IF IsOpenerAt(t, j)
             THEN LET e == SpanEnd(t, j + 2, CloserOfOpenerAt(t, j))
                  IN  IF e = 0 THEN 0 ELSE SpanEnd(t, e, close)
        ELSE j + 2

\* From index i, at depth 0: the characters outside every span, the index of
\* the first opener that is never closed (0: none), and whether a closer
\* stands outside every span.
RECURSIVE Reading(_, _)
Reading(t, i) ==
    LET j == FirstFrom(t, i, IsOpenerAt)
        last == IF j = 0 THEN Len(t) ELSE j - 1
        plain == SubSeq(t, i, last)
        stray == \E k \in i..last : IsCloserAt(t, k)
    IN  IF j = 0 THEN [outside |-> plain, unclosed |-> 0, stray |-> stray]
        ELSE LET e == SpanEnd(t, j + 2, CloserOfOpenerAt(t, j))
             IN  IF e = 0
                 THEN [outside |-> plain, unclosed |-> j, stray |-> stray]
                 ELSE LET r == Reading(t, e)
                      IN  [outside |-> plain \o r.outside,
                           unclosed |-> r.unclosed,
                           stray |-> stray \/ r.stray]

\* Every opener is closed and no closer stands outside a span.
WellNested(t) == Reading(t, 1).unclosed = 0 /\ ~Reading(t, 1).stray

\* The scan of parser.rs 126-163 is over and nothing else has run yet.
Stripped == pc = "refs"

\* C1: on a text whose `{{`/`}}` and `{|`/`|}` delimiters are balanced and
\* properly nested, the stripping scan outputs exactly the characters outside
\* every outermost span, in their order.
C1_StripBalanced ==
    (Stripped /\ WellNested(text)) => result = Reading(text, 1).outside

\* The example of the specification, "X{{a{{b}}c}}Y", was stripped to "XY".
C1_Witness ==
    /\ Stripped
    /\ text = NestedTemplate
    /\ WellNested(text)
    /\ result = <<"X", "Y">>

\* C2: an opener at depth 0 that is never closed ends the output: the scan
\* emits what it emits for the text before that opener and nothing from the
\* opener on.
C2_UnterminatedDropsRest ==
    Stripped =>
        LET p == Reading(text, 1).unclosed
        IN  p > 0 => result = Reading(SubSeq(text, 1, p - 1), 1).outside

\* Some text was kept before an opener that is never closed, and text after
\* that opener was dropped.
C2_Witness ==
    /\ Stripped
    /\ Reading(text, 1).unclosed > 1
    /\ result # <<>>
    /\ stack # <<>>
    /\ Reading(text, 1).unclosed + 2 <= Len(text)

-----------------------------------------------------------------------------
(* The claims about the link rewriter.                                     *)

\* A closure of parser.rs 248-278 has just returned: `caps` holds the link it
\* was called on and `replacement` what it returned.
LinkRewritten == pc \in {"link_pipe", "link"} /\ caps # None

\* The link as it stood in `result`, from its captures.
SourceLink ==
    LET c == Unwrap(caps)
    IN  IF pc = "link_pipe"
        THEN <<"[", "[">> \o c.target \o <<"|">> \o c.text \o <<"]", "]">>
        ELSE <<"[", "[">> \o c.target \o <<"]", "]">>

EndsWith(s, suffix) ==
    /\ Len(suffix) <= Len(s)
    /\ SubSeq(s, Len(s) - Len(suffix) + 1, Len(s)) = suffix

\* `<a href="/wiki/` ... `</a>`
IsAnchorText(r) ==
    /\ starts_with(r, <<"<", "a", " ", "h", "r", "e", "f", "=", "\"", "/", "w", "i", "k", "i", "/">>)
    /\ EndsWith(r, <<"<", "/", "a", ">">>)

\* What the reader sees of a replacement: what stands between `">` and `</a>`
\* in an anchor, all of it otherwise.
VisibleOf(r) ==
    IF IsAnchorText(r)
    THEN LET Mid(s, i) == LitAt(s, i, <<"\"", ">">>)
             k == FirstFrom(r, 16, Mid)
         IN  SubSeq(r, k + 2, Len(r) - 4)
    ELSE r

\* The href of an anchor, between `<a href="` and `">`.
HrefOf(r) ==
    LET Mid(s, i) == LitAt(s, i, <<"\"", ">">>)
    IN  SubSeq(r, 10, FirstFrom(r, 16, Mid) - 1)

\* Lowercased, with underscores for spaces, character by character.
Normalized(target) ==
    [k \in DOMAIN target |-> IF target[k] = "_" THEN " " ELSE LowerChar(target[k])]

C4_WitnessPruned ==
    /\ LinkRewritten
    /\ valid_titles # None
    /\ Unwrap(caps).text # <<>>
    /\ Unwrap(replacement) = html_escape(Unwrap(caps).text)

Entities ==
    {<<"&", "a", "m", "p", ";">>, <<"&", "l", "t", ";">>, <<"&", "g", "t", ";">>,
     <<"&", "q", "u", "o", "t", ";">>, <<"&", "#", "x", "2", "7", ";">>}

\* No raw `<`, `>`, `"`, `'`, and `&` only at the head of an entity.
EscapedOnly(v) ==
    \A i \in 1..Len(v) :
        /\ v[i] \notin {"<", ">", "\"", "'"}
        /\ v[i] = "&" => \E e \in Entities : LitAt(v, i, e)

\* C5: the visible text of every replacement of a link, in open mode and in
\* pruning mode, has no raw `<`, `>`, `"` or `'`, and has `&` only as the first
\* character of `&amp;`, `&lt;`, `&gt;`, `&quot;` or `&#x27;`.
C5_VisibleTextEscaped ==
    LinkRewritten => EscapedOnly(VisibleOf(Unwrap(replacement)))

\* The display of the link had a double quote, and the replacement has `&quot;`.
C5_Witness ==
    /\ LinkRewritten
    /\ "\"" \in Range(Unwrap(caps).text)
    /\ \E i \in 1..Len(Unwrap(replacement)) :
           LitAt(VisibleOf(Unwrap(replacement)), i, <<"&", "q", "u", "o", "t", ";">>)

-----------------------------------------------------------------------------
(* The claim about tags.                                                   *)

\* `<script>` stands somewhere in s.
HasScriptTag(s) ==
    \E i \in 1..Len(s) : LitAt(s, i, <<"<", "s", "c", "r", "i", "p", "t", ">">>)

\* The tag removal of parser.rs 245 has run.
TagsRemoved == pc \in {"link_pipe", "link", "spaces", "newlines", "trim", "cleaned"}

\* s occurs in t.
Occurs(s, t) == \E i \in 1..Len(t) : LitAt(t, i, s)

\* C6: from the tag removal on, through link rewriting and whitespace
\* normalisation to the value returned, the text holds no literal `<script>`;
\* right after the removal, no `<` is followed by a `>` except directly (`<>`,
\* which HTML_RE does not match), so no tag of the input is left.
C6_NoScriptTag ==
    /\ TagsRemoved =>
           /\ ~HasScriptTag(result)
           /\ ~HasScriptTag(clean_buffer)
    /\ (pc = "link_pipe" /\ pos = 1) =>
           \A i \in 1..Len(result) :
               result[i] = "<" => (Peek(result, i) = ">" \/ ">" \notin Range(From(result, i)))
    /\ (pc = "done" /\ outcome.kind \in {"Text", "Article"}) => ~HasScriptTag(outcome.content)

\* The example of the specification: the input had `<script>`, the value
\* returned is an anchor around the inner text `alert(1)`.
C6_Witness ==
    /\ pc = "done"
    /\ text = ScriptLink
    /\ HasScriptTag(text)
    /\ outcome.kind = "Text"
    /\ Occurs(<<"a", "l", "e", "r", "t", "(", "1", ")", "<", "/", "a", ">">>, outcome.content)
    /\ ~HasScriptTag(outcome.content)

-----------------------------------------------------------------------------
(* The claim about cleaning twice.                                         *)

\* s without its whitespace.
WithoutWhiteSpace(s) == SelectSeq(s, LAMBDA c : c \notin WhiteSpace)

\* The second of two calls in a row has returned: `text` is what the first
\* call returned, `result` what the second returned for it.
CleanedTwice == entry = "again" /\ pc = "cleaned"

\* C7: cleaning what the cleaner returned changes nothing except possibly
\* whitespace.
C7_IdempotentUpToWhitespace ==
    CleanedTwice => WithoutWhiteSpace(result) = WithoutWhiteSpace(text)

-----------------------------------------------------------------------------
(* The claims about parse_article.                                         *)

\* parse_article has returned.
Parsed == entry = "parse" /\ pc = "done"

\* The prefixes of the claim: the twelve namespace names with a colon, and the
\* talk variant of each namespace that has one.
ClaimedPrefixes ==
    {n \o <<":">> : n \in NamespaceNames}
    \cup {n \o TalkSuffix : n \in NamespaceNames \ {<<"T", "a", "l", "k">>}}

HasClaimedPrefix(t) == \E p \in ClaimedPrefixes : starts_with(t, p)

\* C9: is_content_article(title) is false exactly when the title starts with
\* one of the twelve prefixes or with the talk variant of one of them; seen at
\* the return of parse_article on a text that is no redirect and is long
\* enough, where None is returned exactly when is_content_article is false.
C9_ExcludedIffClaimedPrefix ==
    (Parsed /\ ~is_redirect(text) /\ min_length = 0) =>
        /\ (outcome = NoOutcome) <=> ~is_content_article(title)
        /\ ~is_content_article(title) <=> HasClaimedPrefix(title)

-----------------------------------------------------------------------------
(* The claims about redirects.                                             *)

\* t without its leading whitespace.
WithoutLeadingWhiteSpace(t) ==
    LET Solid(s, i) == s[i] \notin WhiteSpace
        first == FirstFrom(t, 1, Solid)
    IN  IF first = 0 THEN <<>> ELSE SubSeq(t, first, Len(t))

\* t starts with word, letters compared without regard to their case.
StartsWithIgnoringCase(t, word) ==
    /\ Len(t) >= Len(word)
    /\ \A k \in 1..Len(word) : LowerChar(t[k]) = LowerChar(word[k])

\* The redirect syntax as the specification words it.
StartsAsRedirect(t) ==
    LET rest == WithoutLeadingWhiteSpace(t)
    IN  \/ StartsWithIgnoringCase(rest, <<"#", "r", "e", "d", "i", "r", "e", "c", "t">>)
        \/ StartsWithIgnoringCase(rest, <<"#", " ", "r", "e", "d", "i", "r", "e", "c", "t">>)

\* parse_article has returned for a title that is a content article.
ParsedContentTitle == Parsed /\ is_content_article(title)

\* What parse_article returned came from its redirect branch (parser.rs
\* 295-303): a Redirect, or None although no minimum length is asked for.
TookRedirectBranch == outcome.kind = "Redirect" \/ (outcome = NoOutcome /\ min_length = 0)

\* C11: is_redirect(text) is true exactly when the text, leading whitespace
\* removed, starts with `#redirect` or `# redirect` in any letter case; seen
\* at the call and at the return of parse_article, which takes its redirect
\* branch exactly for such texts.
C11_RedirectDetection ==
    /\ entry = "parse" => (is_redirect(text) <=> StartsAsRedirect(text))
    /\ (ParsedContentTitle /\ min_length = 0) => (TookRedirectBranch <=> StartsAsRedirect(text))

\* A text with leading whitespace and the keyword in mixed case was taken as
\* a redirect.
C11_Witness ==
    /\ ParsedContentTitle
    /\ text[1] \in WhiteSpace
    /\ \E k \in 1..Len(text) : text[k] = "E"
    /\ \E k \in 1..Len(text) : text[k] = "r"
    /\ outcome.kind = "Redirect"

\* The index of the first `[[` whose first following `]` is doubled, 0 when
\* there is none.
FirstLinkAt(t) ==
    LET Closed(s, i) ==
            /\ LitAt(s, i, <<"[", "[">>)
            /\ \E j \in (i + 2)..(Len(s) - 1) :
                   /\ LitAt(s, j, <<"]", "]">>)
                   /\ \A k \in (i + 2)..(j - 1) : s[k] # "]"
    IN  FirstFrom(t, 1, Closed)

\* What stands between the brackets of the link at i, up to its first pipe.
TargetOfLinkAt(t, i) ==
    LET Stop(s, j) == s[j] \in {"]", "|"}
    IN  SubSeq(t, i + 2, FirstFrom(t, i + 2, Stop) - 1)

\* C12: for a redirect text parse_article returns Redirect with, as target,
\* the content of the first `[[...]]` of the text cut at its first pipe; when
\* the text holds no such link it returns None.
C12_RedirectTarget ==
    (ParsedContentTitle /\ StartsAsRedirect(text)) =>
        IF FirstLinkAt(text) = 0
        THEN outcome = NoOutcome
        ELSE outcome = [kind |-> "Redirect", title |-> title,
                        target |-> TargetOfLinkAt(text, FirstLinkAt(text))]

\* A redirect with a piped link gave the part before the pipe as target.
C12_Witness ==
    /\ ParsedContentTitle
    /\ StartsAsRedirect(text)
    /\ \E i \in 1..Len(text) : LitAt(text, i, <<"[", "[", "T", "|", "D", "]", "]">>)
    /\ outcome.kind = "Redirect"
    /\ outcome.target = <<"T">>

\* A redirect without a link was excluded.
C12_WitnessNoLink ==
    /\ ParsedContentTitle
    /\ StartsAsRedirect(text)
    /\ FirstLinkAt(text) = 0
    /\ outcome = NoOutcome

-----------------------------------------------------------------------------
(* The claim about categories.                                             *)

\* The index just past the category link that starts at i, `[[Category:NAME]]`
\* or `[[Category:NAME|sortkey]]` with a NAME of one character at least; 0
\* when no such link starts at i.
CategoryLinkEnd(t, i) ==
    LET StopName(s, j) == s[j] \in {"]", "|"}
        StopKey(s, j) == s[j] = "]"
        name == i + Len(CategoryOpen)
        b == FirstFrom(t, name, StopName)
        c == IF b > 0 /\ t[b] = "|" THEN FirstFrom(t, b + 1, StopKey) ELSE b
    IN  IF LitAt(t, i, CategoryOpen) /\ b > name /\ c > 0 /\ LitAt(t, c, <<"]", "]">>)
        THEN c + 2
        ELSE 0

\* The NAME of the category link that starts at i, trimmed.
CategoryNameAt(t, i) ==
    LET StopName(s, j) == s[j] \in {"]", "|"}
        name == i + Len(CategoryOpen)
    IN  trim(SubSeq(t, name, FirstFrom(t, name, StopName) - 1))

\* The names of the category links of t, in their order.
RECURSIVE CategoryLinksFrom(_, _)
CategoryLinksFrom(t, i) ==
    LET Whole(s, j) == CategoryLinkEnd(s, j) > 0
        at == FirstFrom(t, i, Whole)
    IN  IF at = 0 THEN <<>>
        ELSE <<CategoryNameAt(t, at)>> \o CategoryLinksFrom(t, CategoryLinkEnd(t, at))

\* C13: the categories of an Article are, in order and with duplicates, the
\* trimmed NAME of every `[[Category:NAME]]` and `[[Category:NAME|sortkey]]`
\* of the original text, and nothing else.
C13_CategoriesAreTheCategoryLinks ==
    (Parsed /\ outcome.kind = "Article") => outcome.categories = CategoryLinksFrom(text, 1)

-----------------------------------------------------------------------------
(* The claim about the minimum length.                                     *)

\* The length of s in bytes: its characters, and one byte more for each
\* two-byte character.
Bytes(s) == Len(s) + Cardinality({k \in 1..Len(s) : s[k] \in MultiByte})

C14_WitnessCleanedShorter ==
    /\ ParsedContentTitle
    /\ ~StartsAsRedirect(text)
    /\ Bytes(text) >= min_length
    /\ Bytes(result) < min_length
    /\ result # <<>>
    /\ outcome = NoOutcome

-----------------------------------------------------------------------------
(* The claims about the file/image/category scan.                          *)

IsLinkOpenAt(t, i) == LitAt(t, i, <<"[", "[">>)
IsLinkPairAt(t, i) == LitAt(t, i, <<"[", "[">>) \/ LitAt(t, i, <<"]", "]">>)

\* The index just past the `]]` that closes the span entered d times whose
\* content goes on at i; 0 when the text ends first.
RECURSIVE LinkSpanEnd(_, _, _)
LinkSpanEnd(t, i, d) ==
    LET k == FirstFrom(t, i, IsLinkPairAt)
    IN  IF k = 0 THEN 0
        ELSE IF IsLinkOpenAt(t, k) THEN LinkSpanEnd(t, k + 2, d + 1)
        ELSE IF d = 1 THEN k + 2
        ELSE LinkSpanEnd(t, k + 2, d - 1)

\* c starts with one of `file:`, `image:`, `category:` in any letter case,
\* after its leading whitespace when `trimmed`.
NamesFile(c, trimmed) ==
    LET head == IF trimmed THEN WithoutLeadingWhiteSpace(c) ELSE c
    IN  \/ StartsWithIgnoringCase(head, <<"f", "i", "l", "e", ":">>)
        \/ StartsWithIgnoringCase(head, <<"i", "m", "a", "g", "e", ":">>)
        \/ StartsWithIgnoringCase(head, <<"c", "a", "t", "e", "g", "o", "r", "y", ":">>)

\* The index of the first `[[` at depth 0, from i on, that no `]]` closes; 0
\* when every span is closed.
RECURSIVE FirstUnclosedLink(_, _)
FirstUnclosedLink(t, i) ==
    LET j == FirstFrom(t, i, IsLinkOpenAt)
        e == LinkSpanEnd(t, j + 2, 1)
    IN  IF j = 0 THEN 0
        ELSE IF e = 0 THEN j
        ELSE FirstUnclosedLink(t, e)

\* t from i on without its closed outermost spans that name a file; a span
\* that is not closed and what follows it stay.
RECURSIVE WithoutFileLinks(_, _, _)
WithoutFileLinks(t, i, trimmed) ==
    LET j == FirstFrom(t, i, IsLinkOpenAt)
        e == LinkSpanEnd(t, j + 2, 1)
    IN  IF j = 0 \/ e = 0 THEN SubSeq(t, i, Len(t))
        ELSE IF NamesFile(SubSeq(t, j + 2, e - 3), trimmed)
             THEN SubSeq(t, i, j - 1) \o WithoutFileLinks(t, e, trimmed)
             ELSE SubSeq(t, i, e - 1) \o WithoutFileLinks(t, e, trimmed)

\* The scan is between two spans, or over: what it has read so far.
ScannedSoFar == SubSeq(result, 1, pos - 1)
BetweenSpans == pc = "files"

\* C15 as stated: where every span read so far is closed, the scan has
\* emitted what it read without the closed outermost spans whose content
\* starts with `file:`, `image:` or `category:` in any letter case, every
\* other span and the text outside spans character for character.
C15_DropsSpansStartingWithFilePrefix ==
    (BetweenSpans /\ FirstUnclosedLink(ScannedSoFar, 1) = 0) =>
        clean_buffer = WithoutFileLinks(ScannedSoFar, 1, FALSE)

\* C15, amended: the same, the prefix being looked for after the leading
\* whitespace of the content.
C15_DropsFileSpans ==
    (BetweenSpans /\ FirstUnclosedLink(ScannedSoFar, 1) = 0) =>
        clean_buffer = WithoutFileLinks(ScannedSoFar, 1, TRUE)

\* A file span with a link nested in it was dropped, and a span that names
\* no file was kept, with text outside.
C15_Witness ==
    /\ BetweenSpans
    /\ pos > Len(result)
    /\ FirstUnclosedLink(result, 1) = 0
    /\ \E i \in 1..Len(result) :
           /\ LitAt(result, i, <<"[", "[", "F", "i", "l", "e", ":", "[", "[">>)
           /\ LinkSpanEnd(result, i + 2, 1) > 0
    /\ clean_buffer # <<>>
    /\ Len(clean_buffer) < Len(result)

\* C16: a `[[` at depth 0 that no `]]` closes is emitted with all that
\* follows it, unchanged, after what the scan emits for the text before it.
C16_UnclosedLinkKept ==
    (BetweenSpans /\ FirstUnclosedLink(ScannedSoFar, 1) > 0) =>
        LET u == FirstUnclosedLink(ScannedSoFar, 1)
        IN  /\ pos > Len(result)
            /\ clean_buffer =
                   WithoutFileLinks(SubSeq(result, 1, u - 1), 1, TRUE) \o SubSeq(result, u, Len(result))

\* After a span that is not closed stood a closed file span, and it was kept.
C16_Witness ==
    /\ BetweenSpans
    /\ LET u == FirstUnclosedLink(ScannedSoFar, 1)
       IN  /\ u > 0
           /\ \E i \in (u + 2)..Len(result) :
                  /\ LitAt(result, i, <<"[", "[", "F", "i", "l", "e", ":">>)
                  /\ LinkSpanEnd(result, i + 2, 1) > 0
           /\ SubSeq(clean_buffer, Len(clean_buffer) - (Len(result) - u), Len(clean_buffer))
                  = SubSeq(result, u, Len(result))

-----------------------------------------------------------------------------
(* The claim about references.                                             *)

IsRefTagAt(t, i) == LitAt(t, i, <<"<", "r", "e", "f">>)
IsTagEndAt(t, i) == t[i] = ">"
IsRefCloseAt(t, i) == LitAt(t, i, <<"<", "/", "r", "e", "f", ">">>)

\* t from i on without its reference elements: a tag `<ref ...>` that ends
\* with `/>` goes alone, any other goes with all that stands up to the
\* nearest `</ref>`, and stays when no `</ref>` follows.
RECURSIVE WithoutRefs(_, _)
WithoutRefs(t, i) ==
    LET j == FirstFrom(t, i, IsRefTagAt)
        g == FirstFrom(t, j + 4, IsTagEndAt)
        c == FirstFrom(t, g + 1, IsRefCloseAt)
    IN  IF j = 0 \/ g = 0 THEN SubSeq(t, i, Len(t))
        ELSE IF t[g - 1] = "/" THEN SubSeq(t, i, j - 1) \o WithoutRefs(t, g + 1)
        ELSE IF c = 0 THEN SubSeq(t, i, g) \o WithoutRefs(t, g + 1)
        ELSE SubSeq(t, i, j - 1) \o WithoutRefs(t, c + 6)

\* The two replace_all of parser.rs 167-168 have run on what the template
\* scan returned, which `clean_buffer` still holds.
RefsRemoved == pc = "comments"

\* C17: the reference step deletes the `<ref ...>...</ref>` elements and the
\* self-closing `<ref .../>` tags and nothing else.
C17_OnlyRefsRemoved ==
    RefsRemoved => result = WithoutRefs(clean_buffer, 1)

-----------------------------------------------------------------------------
(* The claim about section headers.                                        *)

\* The index just past the run `={2,}...={2,}` that starts at i and lies on
\* one line: two or more `=`, heading text without `=` or newline, two or
\* more `=`; 0 when no such run starts at i.
HeaderOnOneLineEnd(s, i) ==
    IF ~LitAt(s, i, <<"=", "=">>) THEN 0
    ELSE LET a == SkipIn(s, i, {"="})
             b == SkipNotIn(s, a, {"=", "\n"})
         IN  IF b > a /\ LitAt(s, b, <<"=", "=">>) THEN SkipIn(s, b, {"="}) ELSE 0

\* The header step of parser.rs 239 has run.  Where the text held no bracket
\* and no quote, the two steps before it (233, 236) changed nothing and
\* `clean_buffer`, what the link scan returned, is what the header step read.
HeadersRemoved == pc = "bullets" /\ "[" \notin Range(clean_buffer) /\ "'" \notin Range(clean_buffer)

\* C18: the header step replaces each run `={2,}...={2,}` lying on one line
\* by one newline, and removes nothing of another line than the one the run
\* opens on.
C18_HeadersOnOneLine ==
    HeadersRemoved => result = ReplaceAll(clean_buffer, HeaderOnOneLineEnd, HeaderRepl)

-----------------------------------------------------------------------------
(* The claim about the whitespace of the returned text.                    *)

\* clean_wiki_markup has returned its text.
Returned == pc = "done" /\ outcome.kind = "Text"

\* t holds no tab, no two spaces in a row, no three newlines in a row, and
\* neither starts nor ends with whitespace.
Tidy(t) ==
    /\ "\t" \notin Range(t)
    /\ ~Occurs(<<" ", " ">>, t)
    /\ ~Occurs(<<"\n", "\n", "\n">>, t)
    /\ t # <<>> => t[1] \notin WhiteSpace /\ t[Len(t)] \notin WhiteSpace

\* C19: for every input, the text clean_wiki_markup returns contains no tab,
\* no two consecutive spaces, no run of three or more newlines, and no
\* leading or trailing whitespace.
C19_OutputTidy == Returned => Tidy(outcome.content)

\* A text with a tab, with three newlines in a row between two letters and
\* with whitespace at an end has been cleaned, and something is left of it.
C19_Witness ==
    /\ Returned
    /\ entry = "clean"
    /\ "\t" \in Range(text)
    /\ Occurs(<<"\n", "\n", "\n">>, text)
    /\ text[1] \in WhiteSpace \/ text[Len(text)] \in WhiteSpace
    /\ Occurs(<<"\n", "\n">>, outcome.content)

-----------------------------------------------------------------------------
(* The claim about the two passes of the link pruning.                     *)

\* The normalized titles of the articles that articles.jsonl holds.
ArticleTitles ==
    IF articles_file = None THEN {}
    ELSE {PruneNormalize(Unwrap(articles_file)[k].title) :
            k \in {n \in DOMAIN Unwrap(articles_file) : Unwrap(articles_file)[n].kind = "article"}}

\* C20: link pruning has two phases with a barrier between them: no link of
\* any article is decided (kept or removed) before the title set holds the
\* normalized title of every article of articles.jsonl, and once the first
\* decision is taken the title set is never modified.
C20_TwoPhaseBarrier ==
    /\ [][decisions' # decisions => ArticleTitles \subseteq title_index]_vars
    /\ [][decisions # <<>> => title_index' = title_index]_vars

\* A file of two articles has been pruned: a link of the first article to the
\* second one, whose title comes later in the file, was kept, and a link to
\* a page that is not in the file was removed.
C20_Witness ==
    /\ prune_pc = "done"
    /\ \E k \in DOMAIN decisions :
          /\ decisions[k].kept
          /\ decisions[k].title = TitleAB
          /\ decisions[k].target = TitleC
    /\ \E k \in DOMAIN decisions : ~decisions[k].kept /\ decisions[k].target = TitleD

-----------------------------------------------------------------------------
(* The claims about the steps of the two hand-written scans.               *)

\* The stripping scan stands before a character of its input.
AtStripStep == pc = "strip" /\ pos <= Len(result)

\* C23: at every step of the stripping scan, for any input: a character is
\* appended to the output only when the closer stack is empty; an opener
\* `{{` or `{|` pushes its own closer, inside a structure as outside; the
\* stack is popped only by the closer its top expects, a closer of the other
\* kind is consumed without popping; and a closer met while the stack is
\* empty is copied to the output and pops nothing.
C23_StripSteps ==
    [][AtStripStep =>
        LET opener == IsOpenerAt(result, pos)
            closer == IsCloserAt(result, pos)
            expected == stack # <<>> /\ LitAt(result, pos, stack[Len(stack)])
        IN  /\ clean_buffer' # clean_buffer =>
                   stack = <<>> /\ clean_buffer' = Append(clean_buffer, result[pos])
            /\ opener => stack' = Append(stack, CloserOfOpenerAt(result, pos))
            /\ Len(stack') < Len(stack) =>
                   expected /\ stack' = SubSeq(stack, 1, Len(stack) - 1)
            /\ ~opener /\ closer /\ stack # <<>> /\ ~expected =>
                   stack' = stack /\ clean_buffer' = clean_buffer
            /\ ~opener /\ closer /\ stack = <<>> =>
                   stack' = <<>> /\ clean_buffer' = Append(clean_buffer, result[pos])
    ]_vars

\* In `{{|}}}}..` the scan has consumed the `|` of a `|}` while `}}` was
\* expected, without popping, has popped at the `}}` that follows, and now
\* meets another `}}` with nothing open.
C23_Witness ==
    /\ AtStripStep
    /\ LitAt(result, 1, <<"{", "{">> \o TableClose \o TemplateClose \o <<"}">>)
    /\ pos = 6
    /\ stack = <<>>
    /\ LitAt(result, pos, TemplateClose)


\* The stages of the stripping scan and of the link scan with its read-ahead.
StripStages == {"strip"}
FileStages == {"files", "files_inner", "files_decide"}

\* The step stays inside one of the two scans.
InsideOneScan ==
    \/ pc \in StripStages /\ pc' \in StripStages
    \/ pc \in FileStages /\ pc' \in FileStages

\* C24: the stripping scan and the file/image/category link scan, read-ahead
\* loop included, terminate on every finite input however malformed: each
\* loop iteration consumes at least one character of the input, the scan
\* never goes back to a character it has read, and each scan ends in its
\* result (the next stage is entered) rather than in an error.
C24_ScansTerminate ==
    /\ [][InsideOneScan =>
            /\ pos' >= pos
            /\ pos' <= Len(result) + 1
            /\ (pos <= Len(result) /\ pc # "files_decide") => pos' > pos]_vars
    /\ (pc = "strip") ~> (pc = "refs")
    /\ (pc \in FileStages) ~> (pc = "ext_links")

\* The read-ahead has run into the end of a text with an opener of each scan
\* that nothing closes.
C24_Witness ==
    /\ pc = "files_decide"
    /\ ~is_closed
    /\ depth > 1
    /\ pos > Len(result)
    /\ \E i \in 1..Len(text) : IsOpenerAt(text, i)

-----------------------------------------------------------------------------
(* The claim about the category links removed and the categories listed.   *)

CategoryPrefix == <<"c", "a", "t", "e", "g", "o", "r", "y", ":">>

\* The name a category link of content c declares: what follows the prefix,
\* up to a `|` if there is one, without the whitespace around it.
DeclaredCategory(c) ==
    LET rest == From(WithoutLeadingWhiteSpace(c), Len(CategoryPrefix) + 1)
    IN  trim(SubSeq(rest, 1, SkipNotIn(rest, 1, {"|"}) - 1))

\* The names declared by the closed outermost links of t, from i on, that the
\* removal scan takes for category links: prefix in any letter case, after
\* leading whitespace.  A link without a name declares nothing.
RECURSIVE RemovedCategories(_, _)
RemovedCategories(t, i) ==
    LET j == FirstFrom(t, i, IsLinkOpenAt)
    IN  IF j = 0 THEN {}
        ELSE LET e == LinkSpanEnd(t, j + 2, 1)
             IN  IF e = 0 THEN {}
                 ELSE LET c == SubSeq(t, j + 2, e - 3)
                      IN  (IF /\ StartsWithIgnoringCase(WithoutLeadingWhiteSpace(c), CategoryPrefix)
                              /\ DeclaredCategory(c) # <<>>
                           THEN {DeclaredCategory(c)} ELSE {})
                          \cup RemovedCategories(t, e)

\* parse_article has returned an Article.
ReturnedArticle == pc = "done" /\ outcome.kind = "Article"

\* C25: for every Article returned by parse_article, each category link that
\* the cleaning removes from the body is reported in the categories list: no
\* category declaration is dropped from the body without being listed.
C25_RemovedCategoriesListed ==
    ReturnedArticle => RemovedCategories(text, 1) \subseteq Range(outcome.categories)

-----------------------------------------------------------------------------
(* The claim about the anchors of the returned text.                       *)

\* Every anchor that opens in t is closed before another one opens.
AnchorsPaired(t) ==
    \A i \in 1..Len(t) :
        LitAt(t, i, AnchorHead) =>
            LET close == FirstLit(t, i + 1, AnchorTail)
                open == FirstLit(t, i + 1, AnchorHead)
            IN  close > 0 /\ (open = 0 \/ close < open)

\* C26: the unpiped-link rewrite does not work on what the piped-link
\* rewrite before it produced: in the text clean_wiki_markup returns, every
\* `<a href="/wiki/...">` is closed by its own `</a>` before another anchor
\* opens, so anchors are paired and never nested.
C26_AnchorsNeverNested == Returned => AnchorsPaired(outcome.content)

-----------------------------------------------------------------------------
(* The claim about the two implementations of link pruning.                *)

\* A text was cleaned in open mode, its content stored, and the text cleaned
\* again with a title set.
CleanedBothWays == pc = "done" /\ entry = "filtered"

\* C27: the two pruning implementations agree: for every article text and
\* every title set, cleaning in open mode and then applying prune_articles'
\* rewrite to the stored content gives the same content as cleaning with
\* that title set, also for targets that URL-encoding changes.
C27_PruningAgrees ==
    CleanedBothWays =>
        PruneContent(Unwrap(articles_file)[1].content, title_index) = outcome.content

-----------------------------------------------------------------------------
(* The claim about calls of the parser that run side by side.              *)

-----------------------------------------------------------------------------
(* The claim about the counters of extract.                                *)

\* The pages extract is done with.
PagesProcessed == page_no - 1

\* Every page extract is done with was counted once, as extracted or as
\* skipped; the lines written are the extracted pages.
CountedOnce ==
    (extract_pc # "none") =>
        /\ PagesProcessed = stats.articles_extracted + stats.articles_skipped
        /\ Len(writer) = stats.articles_extracted
        /\ stats.redirects <= stats.articles_skipped

\* What extract does with what parse_article returned for a page.
AccountedByOutcome ==
    (extract_pc = "parsing" /\ extract_pc' # "parsing") =>
        /\ (outcome.kind = "Article" /\ extract_pc' # "failed") =>
               /\ writer' = Append(writer, [title |-> title, content |-> result,
                                            categories |-> categories])
               /\ stats' = [stats EXCEPT !.articles_extracted = @ + 1]
        /\ (outcome.kind = "Redirect") =>
               /\ writer' = writer
               /\ stats' = [stats EXCEPT !.redirects = @ + 1, !.articles_skipped = @ + 1]
               /\ extract_pc' # "failed"
        /\ (outcome.kind = "None") =>
               /\ writer' = writer
               /\ stats' = [stats EXCEPT !.articles_skipped = @ + 1]
               /\ extract_pc' # "failed"

-----------------------------------------------------------------------------
(* The claims about the update manager.                                    *)

\* The call of task t has set the status to Downloading and has not returned.
Updating(t) == calls[t].began /\ calls[t].pc # "done"

\* C28: at most one update runs at a time: under every interleaving of
\* concurrent perform_update calls on the same manager, at most one call is
\* between setting Downloading and returning; every other call fails with
\* 'Update already in progress'.
C28_OneUpdateAtATime == \A t \in Tasks : \A u \in Tasks \ {t} : ~(Updating(t) /\ Updating(u))

\* The call of task t is in check_for_updates.
Checking(t) == calls[t].method = "check_for_updates" /\ calls[t].pc # "done"

\* C29: every call of check_for_updates eventually returns: it sets
\* Checking, computes needs_update, sets Idle, saves and returns, and does
\* not block forever on the status lock.
C29_CheckReturns == Checking("t1") ~> (calls["t1"].pc = "done")

\* A call of perform_update that has set Downloading returns.
UpdateReturns(t) == Updating(t) /\ calls'[t].pc = "done"

\* C30: whenever perform_update has set the status to Downloading and then
\* returns, with success or with an error and in every mode, the status it
\* leaves is Success or Failed with the progress cleared, never one in
\* progress.
C30_UpdateLeavesFinalStatus ==
    [][UpdateReturns("t1") =>
          /\ status'.current_status \in {"Success", "Failed"}
          /\ status'.progress = None]_vars

====
